---- MODULE Spec2Model ----
(***************************************************************************)
(* A model of the NBA agent crew: the coordinator NBACrew                  *)
(* (src/coordinator.py), its specialist agents (src/agents.py) and the     *)
(* data gateway NBATool (src/tools.py).                                    *)
(*                                                                         *)
(* One call of NBACrew.run is followed through its steps (gate, routing,   *)
(* dispatch, review, return); the completion backend and the data sources  *)
(* are the environment: every completion call either raises or returns a   *)
(* reply with a usage report, chosen nondeterministically.                 *)
(***************************************************************************)
EXTENDS Integers, Sequences, FiniteSets

\* ------------------------------------------------------------------ bounds
\* number of NBACrew.run calls followed
MaxRuns == 2
\* a completion call reports 2..MaxPrompt+1 prompt tokens and 1 completion token
MaxPrompt == 1
\* a streamed Reviewer reply has at most MaxChunks text chunks
MaxChunks == 1
\* the clock of the cache runs from hour 0 to hour MaxClock
MaxClock == 2
\* a wrapped function is retried with attempts in 1..MaxAttempts and a delay
\* of 0..MaxDelay seconds
MaxAttempts == 5
MaxDelay == 2

\* ----------------------------------------------------------------- strings
\* A Python str is a sequence of one-character strings.
Str_yes == <<"y", "e", "s">>

UpperToLower ==
  [c \in {"A", "E", "L", "N", "O", "S", "Y", "Z"} |->
     CASE c = "A" -> "a" [] c = "E" -> "e" [] c = "L" -> "l" [] c = "N" -> "n"
       [] c = "O" -> "o" [] c = "S" -> "s" [] c = "Y" -> "y" [] c = "Z" -> "z"]

\* str.lower()
Lower(s) ==
  [i \in 1..Len(s) |-> IF s[i] \in DOMAIN UpperToLower THEN UpperToLower[s[i]] ELSE s[i]]

IsSpace(c) == c \in {" ", "\n", "\t"}

\* str.strip(): drop leading and trailing whitespace
Strip(s) ==
  LET idx == {i \in 1..Len(s) : ~IsSpace(s[i])}
  IN  IF idx = {} THEN <<>>
      ELSE LET lo == CHOOSE i \in idx : \A j \in idx : i <= j
               hi == CHOOSE i \in idx : \A j \in idx : j <= i
           IN  SubSeq(s, lo, hi)

\* Python's  sub in s  on strings
Contains(sub, s) ==
  \E i \in 1..(Len(s) - Len(sub) + 1) : SubSeq(s, i, i + Len(sub) - 1) = sub

\* ------------------------------------------------------------------ agents
Agents ==
  {"StatsAnalyzer", "PlayerScout", "TradeAnalyst", "GamePredictor", "DraftProspect", "Reviewer"}

\* the keys of NBACrew.tool_dispatch
DispatchKeys ==
  {"evaluate_trade", "predict_game", "scout_player", "analyze_player_comprehensive",
   "analyze_team_comprehensive", "check_live_games", "scout_prospect",
   "query_knowledge_base", "web_search", "ask_question"}

\* the named arguments of each table operation; check_live_games takes **kwargs
ArgNames ==
  [t \in DispatchKeys |->
     CASE t = "evaluate_trade" -> {"player1", "player2"}
       [] t = "predict_game" -> {"team1", "team2"}
       [] t = "scout_player" -> {"player_name"}
       [] t = "analyze_player_comprehensive" -> {"player_name"}
       [] t = "analyze_team_comprehensive" -> {"team_name"}
       [] t = "check_live_games" -> {}
       [] t = "scout_prospect" -> {"prospect_name"}
       [] t = "query_knowledge_base" -> {"query"}
       [] t = "web_search" -> {"query"}
       [] t = "ask_question" -> {"question"}]

\* ------------------------------------------------------- completion backend
\* the usage object of a completion response
Usages ==
  {[prompt_tokens |-> p + 1, completion_tokens |-> 1, total_tokens |-> p + 2] : p \in 1..MaxPrompt}

\* what one non-streaming completion call does: it raises, or it returns a
\* response carrying a usage object
Raises == [ok |-> FALSE, usage |-> [prompt_tokens |-> 0, completion_tokens |-> 0, total_tokens |-> 0]]
Outcomes == {Raises} \cup {[ok |-> TRUE, usage |-> u] : u \in Usages}

ZeroUsage == [prompt_tokens |-> 0, completion_tokens |-> 0, total_tokens |-> 0]

VARIABLES
  pc,                    \* where the caller / the current run stands
  runs,                  \* number of run calls made so far
  task,                  \* argument task of the current run
  stream,                \* argument stream of the current run
  memory,                \* BaseAgent.memory of each agent
  last_usage,            \* BaseAgent.last_usage of each agent: <<>> is None
  conversation_history,  \* NBACrew.conversation_history
  run_usage,             \* NBACrew.run_usage
  self_log,              \* the identity of the list object NBACrew.log is bound to
  log,                   \* the contents of that list
  pending,               \* route_task: the tool and params the router chose
  draft,                 \* run: draft_answer
  result,                \* what the last returned run gave its caller
  gens,                  \* the lazy sequences returned so far
  responses,             \* the mapping last built for synthesize_responses
  reported,              \* total_tokens reported by the completion calls of this run
  gate_reply,            \* is_task_on_topic: the content of the gate's reply, <<>> if none
  trace,                 \* history of the current run (calls, tallies, operations)
  streamed,              \* some run so far was called with stream=True
  files,                 \* CacheManager: the file of each cache key, <<>> if there is none
  now,                   \* datetime.now(), in hours
  got                    \* the latest call of the cache or the gateway and its result

crew_vars ==
  <<pc, runs, task, stream, memory, last_usage, conversation_history, run_usage,
    self_log, log, pending, draft, result, gens, responses, reported, gate_reply, trace,
    streamed>>

gateway_vars == <<files, now, got>>

vars == <<crew_vars, gateway_vars>>


\* ------------------------------------------------------------------ values
\* A text the program handles is a sequence of parts; a part names where the
\* text comes from: a completion reply (run, label of the call), a fixed
\* string of the code (label), a task typed by the user, or a prompt.
Part(kind, run, label, arg) == [kind |-> kind, run |-> run, label |-> label, arg |-> arg]
Val(kind, run, label, arg) == <<Part(kind, run, label, arg)>>
Text(label) == Val("text", 0, label, <<>>)
Reply(run, label) == Val("reply", run, label, <<>>)

\* a ghost record of one step of the current run
Ev(kind, id, n) == [ev |-> kind, id |-> id, n |-> n]

\* ------------------------------------------------------------ data gateway
\* nba_api's static roster (players.get_players(), teams.get_teams())
Players == {[id |-> 1, full_name |-> <<"A", "l">>, is_active |-> TRUE]}
Teams == {[id |-> 10, full_name |-> <<"L", "A">>, nickname |-> <<"L">>]}

\* the names a router may put into params
ArgValues == {<<"A", "l">>, <<"L", "A">>}

\* a lookup keyed by the name as given
PlayerFoundExact(name) == {p \in Players : p.full_name = name}

\* data._player_lookup / data._team_lookup: keyed by the lower-cased name
PlayerFound(name) == {p \in Players : Lower(p.full_name) = Lower(name)}
TeamFound(name) ==
  {t \in Teams : Lower(t.full_name) = Lower(name)
                 \/ (t.nickname # <<>> /\ Lower(t.nickname) = Lower(name))}

StatsRecord ==
  [points_per_game |-> 27, rebounds_per_game |-> 7, assists_per_game |-> 8,
   field_goal_percentage |-> 50]

\* data.get_player_info: None (<<>>) for an unknown name; the record's 'stats'
\* is None (<<>>) in Lite mode or after a failed fetch.  full: the record
\* (cached or fresh) carries stats.
GetPlayerInfo(name, full) ==
  IF PlayerFound(name) = {} THEN <<>>
  ELSE LET p == CHOOSE p \in PlayerFound(name) : TRUE
       IN  <<[id |-> p.id, full_name |-> p.full_name,
              stats |-> IF full THEN <<StatsRecord>> ELSE <<>>]>>

GetTeamInfo(name, full) ==
  IF TeamFound(name) = {} THEN <<>>
  ELSE LET t == CHOOSE t \in TeamFound(name) : TRUE
       IN  <<[id |-> t.id, full_name |-> t.full_name,
              stats |-> IF full THEN <<StatsRecord>> ELSE <<>>]>>

\* a ToolEnvelope: keys are the fields present
Success(data) == [success |-> TRUE, keys |-> {"success", "data"}, data |-> data, error |-> <<>>]
Failure(error) == [success |-> FALSE, keys |-> {"success", "error"}, data |-> <<>>, error |-> error]

\* NBATool.get_player_stats
GetPlayerStats(name, full) ==
  LET player == GetPlayerInfo(name, full)
  IN  IF player # <<>> THEN Success(player)
      ELSE Failure(Val("text", 0, "Player not found", name))

\* NBATool.get_team_stats
GetTeamStats(name, full) ==
  LET team == GetTeamInfo(name, full)
  IN  IF team # <<>> THEN Success(team)
      ELSE Failure(Val("text", 0, "Team not found", name))

\* a dict as a set of <<key, value>>: d[key] = value
Put(mapping, key, value) == {kv \in mapping : kv[1] # key} \cup {<<key, value>>}

\* NBATool.compare_players: raised is TRUE when p["stats"]["points_per_game"]
\* subscripts None (TypeError)
ComparePlayers(player1, player2, full) ==
  LET p1 == GetPlayerInfo(player1, full)
      p2 == GetPlayerInfo(player2, full)
  IN  IF p1 = <<>> \/ p2 = <<>>
      THEN [raised |-> FALSE, envelope |-> Failure(Text("One or both players not found"))]
      ELSE IF p1[1].stats = <<>> \/ p2[1].stats = <<>>
      THEN [raised |-> TRUE, envelope |-> Failure(<<>>)]
      ELSE [raised |-> FALSE,
            envelope |-> [success |-> TRUE,
                          keys |-> {"success", "player1", "player2", "comparison"},
                          data |-> <<>>, error |-> <<>>,
                          comparison |->
                            [stat \in {"points", "rebounds", "assists", "field_goal_percentage"} |->
                               LET field == IF stat = "field_goal_percentage" THEN stat
                                            ELSE IF stat = "points" THEN "points_per_game"
                                            ELSE IF stat = "rebounds" THEN "rebounds_per_game"
                                            ELSE "assists_per_game"
                               IN  Put({<<player1, p1[1].stats[1][field]>>},
                                       player2, p2[1].stats[1][field])]]]

\* ------------------------------------------------------------------ cache
\* cache keys of data.py: f"player_lite_{id}", f"team_lite_{id}"
PlayerKey(p) == <<"player_lite", p.id>>
TeamKey(t) == <<"team_lite", t.id>>
CacheKeys == {PlayerKey(p) : p \in Players} \cup {TeamKey(t) : t \in Teams}

\* CacheManager.set: ttl_hours=24 unless given
DefaultTtl == 24
\* the ttl_hours a caller passes
Ttls == {0, 1, DefaultTtl}

\* the dicts data.py caches under a key
CacheValues(k) ==
  IF k[1] = "player_lite"
  THEN {GetPlayerInfo(p.full_name, full)[1] : p \in {q \in Players : PlayerKey(q) = k},
                                             full \in BOOLEAN}
  ELSE {GetTeamInfo(t.full_name, full)[1] : t \in {q \in Teams : TeamKey(q) = k},
                                           full \in BOOLEAN}

\* json.dump of a cached dict: ints and floats become numbers, a str a
\* string, None null, a dict an object
JsonDump(value) ==
  [js |-> "object",
   v  |-> [id |-> [js |-> "number", v |-> value.id],
           full_name |-> [js |-> "string", v |-> value.full_name],
           stats |-> IF value.stats = <<>>
                     THEN [js |-> "null", v |-> <<>>]
                     ELSE [js |-> "object",
                           v  |-> [f \in DOMAIN value.stats[1] |->
                                     [js |-> "number", v |-> value.stats[1][f]]]]]]

\* json.load: the Python value of a JSON text
JsonLoad(j) ==
  [id |-> j.v.id.v,
   full_name |-> j.v.full_name.v,
   stats |-> IF j.v.stats.js = "null" THEN <<>>
             ELSE <<[f \in DOMAIN j.v.stats.v |-> j.v.stats.v[f].v]>>]

\* datetime.isoformat / datetime.fromisoformat
Isoformat(t) == [iso |-> t]
FromIsoformat(x) == x.iso

\* the ways a cache file can be damaged: no JSON at all, or a JSON object
\* that lacks one of its keys
Damages == {"invalid_json", "no_timestamp", "no_ttl_hours", "no_value"}
AllFields == {"value", "timestamp", "ttl_hours"}

\* CacheManager.set: F with the file of key written anew at time t.  Beside
\* its content the file carries, as ghosts, the value that was passed (orig)
\* and what has damaged it since (damage)
CacheSet(F, key, value, ttl_hours, t) ==
  [F EXCEPT ![key] = <<[parses |-> TRUE, fields |-> AllFields, value |-> JsonDump(value),
                        timestamp |-> Isoformat(t), ttl_hours |-> ttl_hours,
                        orig |-> value, damage |-> ""]>>]

\* an entry that never expires
ExpiredNever(t, timestamp, ttl_hours) == FALSE

\* CacheManager.get, line 50: datetime.now() > expiry_time
Expired(t, timestamp, ttl_hours) == t > timestamp + ttl_hours

\* CacheManager.get at time t: the files after it, the value returned (<<>>
\* is None) and whether the except branch printed an error
CacheGet(F, key, t) ==
  IF F[key] = <<>> THEN [files |-> F, value |-> <<>>, printed |-> FALSE]
  ELSE LET f == F[key][1]
       IN  IF ~f.parses \/ "timestamp" \notin f.fields \/ "ttl_hours" \notin f.fields
           THEN [files |-> F, value |-> <<>>, printed |-> TRUE]
           ELSE IF Expired(t, FromIsoformat(f.timestamp), f.ttl_hours)
           THEN [files |-> [F EXCEPT ![key] = <<>>], value |-> <<>>, printed |-> FALSE]
           ELSE IF "value" \notin f.fields
           THEN [files |-> F, value |-> <<>>, printed |-> TRUE]
           ELSE [files |-> F, value |-> <<JsonLoad(f.value)>>, printed |-> FALSE]

\* CacheManager.clear / clear_key
CacheClear(F) == [k \in DOMAIN F |-> <<>>]
CacheClearKey(F, key) == [F EXCEPT ![key] = <<>>]

\* ------------------------------------------------------- upstream fetches
\* stats.retry(attempts=3, delay=1) around get_player_season_stats and
\* get_team_season_stats
RetryAttempts == 3
\* one attempt: the endpoint raises, gives an empty frame, or gives stats
FetchOutcomes == {"raise", "empty", "stats"}

RECURSIVE RetryFrom(_, _)
\* the wrapper's loop from attempt (0-based): the value returned (None after
\* the last failed attempt) and the number of attempts made
RetryFrom(att, attempt) ==
  IF att[attempt + 1] # "raise"
  THEN [value |-> IF att[attempt + 1] = "stats" THEN <<StatsRecord>> ELSE <<>>,
        tries |-> attempt + 1, raised |-> FALSE]
  ELSE IF attempt + 1 = RetryAttempts
  THEN [value |-> <<>>, tries |-> attempt + 1, raised |-> FALSE]
  ELSE RetryFrom(att, attempt + 1)

\* a wrapper that makes one attempt only
RetryOnce(att) ==
  [value |-> IF att[1] = "stats" THEN <<StatsRecord>> ELSE <<>>, tries |-> 1,
   raised |-> att[1] = "raise"]

Retry(att) == RetryFrom(att, 0)

\* data.get_player_info / get_team_info, lines 48-60: player_stats is None
\* unless DATA_MODE is "FULL" and the fetch gave stats; an exception of the
\* fetch would be caught here
FetchStats(mode, att) ==
  IF mode = "FULL"
  THEN [Retry(att) EXCEPT !.raised = FALSE]
  ELSE [value |-> <<>>, tries |-> 0, raised |-> FALSE]

\* a lookup that goes upstream and stores its result without reading the
\* cache
CachedInfoUncached(F, key, name, mode, att, t) ==
  LET f == FetchStats(mode, att)
      fresh == IF key[1] = "player_lite" THEN GetPlayerInfo(name, f.value # <<>>)[1]
               ELSE GetTeamInfo(name, f.value # <<>>)[1]
  IN  [files |-> CacheSet(F, key, fresh, DefaultTtl, t), found |-> TRUE,
       full |-> f.value # <<>>, hit |-> FALSE, tries |-> f.tries, raised |-> f.raised,
       key |-> key, had |-> F[key], wiki |-> TRUE]

\* data.get_player_info / get_team_info for a roster entry, lines 37-72 and
\* 82-114, at time t: the files after it, whether the dict returned carries
\* stats, whether it came from the cache, and the fetch attempts made.
\* key and had are the cache key used and the file found under it; wiki
\* tells that wikipedia.summary was called.
CachedInfo(F, key, name, mode, att, t) ==
  LET c == CacheGet(F, key, t)
      f == FetchStats(mode, att)
      fresh == IF key[1] = "player_lite" THEN GetPlayerInfo(name, f.value # <<>>)[1]
               ELSE GetTeamInfo(name, f.value # <<>>)[1]
  IN  IF c.value # <<>>
      THEN [files |-> c.files, found |-> TRUE, full |-> c.value[1].stats # <<>>,
            hit |-> TRUE, tries |-> 0, raised |-> FALSE,
            key |-> key, had |-> F[key], wiki |-> FALSE]
      ELSE [files |-> CacheSet(c.files, key, fresh, DefaultTtl, t), found |-> TRUE,
            full |-> f.value # <<>>, hit |-> FALSE, tries |-> f.tries, raised |-> f.raised,
            key |-> key, had |-> F[key], wiki |-> TRUE]

\* data.get_player_info / get_team_info for a name that is in no roster
NotFound(F) ==
  [files |-> F, found |-> FALSE, full |-> FALSE, hit |-> FALSE, tries |-> 0, raised |-> FALSE,
   key |-> <<>>, had |-> <<>>, wiki |-> FALSE]

\* data.get_player_info with its cache
PlayerInfoAt(F, name, mode, att, t) ==
  IF PlayerFound(name) = {} THEN NotFound(F)
  ELSE CachedInfo(F, PlayerKey(CHOOSE p \in PlayerFound(name) : TRUE), name, mode, att, t)

\* data.get_team_info with its cache
TeamInfoAt(F, name, mode, att, t) ==
  IF TeamFound(name) = {} THEN NotFound(F)
  ELSE CachedInfo(F, TeamKey(CHOOSE x \in TeamFound(name) : TRUE), name, mode, att, t)

\* no call of the cache or the gateway has been made
NoCall == [op |-> "none", key |-> <<>>, ttl |-> 0]

\* ------------------------------------------------------------- crew record
\* The operators below thread a record S through the statements of a
\* method: S holds the fields of the crew and of its agents the method may
\* change, exc tells that an exception is propagating, val is the value
\* returned.

\* BaseAgent.add_to_memory
AddToMemory(S, agent, role, content) ==
  [S EXCEPT !.memory[agent] = Append(@, [role |-> role, content |-> content, run |-> S.run])]

\* a reset that covers the five specialists only
ResetMemorySpecialists(S) ==
  [S EXCEPT !.memory = [a \in Agents |-> IF a = "Reviewer" THEN @[a] ELSE <<>>],
            !.last_usage = [a \in Agents |-> IF a = "Reviewer" THEN @[a] ELSE <<>>]]

\* BaseAgent.reset_memory, for every agent of NBACrew.agents
ResetMemory(S) ==
  [S EXCEPT !.memory = [a \in Agents |-> <<>>], !.last_usage = [a \in Agents |-> <<>>]]

\* NBACrew._log
Log(S, message, level) ==
  [S EXCEPT !.log = Append(@, [level |-> level, message |-> message, run |-> S.run])]

\* NBACrew._log_usage: usage is None (<<>>) or <<a usage object>>
LogUsage(S, usage) ==
  IF usage # <<>>
  THEN [S EXCEPT !.run_usage =
                   [prompt_tokens |-> @.prompt_tokens + usage[1].prompt_tokens,
                    completion_tokens |-> @.completion_tokens + usage[1].completion_tokens,
                    total_tokens |-> @.total_tokens + usage[1].total_tokens],
                 !.trace = Append(@, Ev("tally", usage[1].call, usage[1].run))]
  ELSE S

\* NBACrew.add_to_history
AddToHistory(S, role, content) ==
  [S EXCEPT !.history = Append(@, [role |-> role, content |-> content])]

\* client.chat.completions.create(..., stream=False): the response's usage
\* object, or an exception
Completion(S, label, out) ==
  IF out.ok
  THEN [S EXCEPT !.trace = Append(@, Ev("call", label, 0)),
                 !.reported = @ + out.usage.total_tokens,
                 !.val = Reply(S.run, label)]
  ELSE [S EXCEPT !.trace = Append(@, Ev("failed_call", label, 0)), !.exc = TRUE]

\* the usage object of the response of call label
UsageObject(S, label, out) ==
  <<[prompt_tokens |-> out.usage.prompt_tokens,
     completion_tokens |-> out.usage.completion_tokens,
     total_tokens |-> out.usage.total_tokens, call |-> label, run |-> S.run]>>

\* sequencing: G continues from R unless an exception is propagating
Then(R, G(_)) == IF R.exc THEN R ELSE G(R)

\* BaseAgent.get_system_prompt: the preamble naming the agent and its role
SystemPrompt(agent) == Val("prompt", 0, agent, <<>>)

\* BaseAgent.think, lines 46-50: the messages of the completion request,
\* built after the query has gone to memory
ThinkRequest(S, agent, query) ==
  LET mem == AddToMemory(S, agent, "user", query).memory[agent]
  IN  <<[role |-> "system", content |-> SystemPrompt(agent)]>>
        \o [i \in 1..Len(mem) |-> [role |-> mem[i].role, content |-> mem[i].content]]

\* a think that keeps the reply out of memory
ThinkForgetsReply(S, agent, query, label, out) ==
  Completion(AddToMemory(S, agent, "user", query), label, out)

\* BaseAgent.think(query, stream=False)
Think(S, agent, query, label, out) ==
  LET S1 == AddToMemory(S, agent, "user", query)
      S2 == Completion(S1, label, out)
  IN  Then(S2, LAMBDA R :
        AddToMemory([R EXCEPT !.last_usage[agent] = UsageObject(R, label, out)],
                    agent, "assistant", R.val))

\* ------------------------------------------------------ specialist agents
Query(S, kind, arg) == Val("query", S.run, kind, arg)

\* an analyze_player that goes on to the completion whatever the lookup gave
AnalyzePlayerAlwaysThinks(S, player_name, full, label, out) ==
  Think(S, "StatsAnalyzer", Query(S, "analyze_player", player_name), label, out)

\* StatsAnalyzer.analyze_player
AnalyzePlayer(S, player_name, full, label, out) ==
  LET player_info == GetPlayerStats(player_name, full)
  IN  IF ~player_info.success THEN [S EXCEPT !.val = player_info.error]
      ELSE Think(S, "StatsAnalyzer", Query(S, "analyze_player", player_name), label, out)

\* StatsAnalyzer.analyze_team
AnalyzeTeam(S, team_name, full, label, out) ==
  LET team_info == GetTeamStats(team_name, full)
  IN  IF ~team_info.success THEN [S EXCEPT !.val = team_info.error]
      ELSE Think(S, "StatsAnalyzer", Query(S, "analyze_team", team_name), label, out)

\* StatsAnalyzer.check_live_games: NBATool has no attribute get_games_today,
\* so self.tools.get_games_today() raises AttributeError
CheckLiveGames(S) == [S EXCEPT !.exc = TRUE]

\* PlayerScout.scout_player
ScoutPlayer(S, player_name, full, label, out) ==
  LET player_info == GetPlayerStats(player_name, full)
  IN  IF ~player_info.success THEN [S EXCEPT !.val = player_info.error]
      ELSE Think(S, "PlayerScout", Query(S, "scout_player", player_name), label, out)

\* TradeAnalyst.compare_for_trade
CompareForTrade(S, player1, player2, full, label, out) ==
  LET comparison == ComparePlayers(player1, player2, full)
  IN  IF comparison.raised THEN [S EXCEPT !.exc = TRUE]
      ELSE IF ~comparison.envelope.success THEN [S EXCEPT !.val = comparison.envelope.error]
      ELSE Think(S, "TradeAnalyst", Query(S, "compare_for_trade", player1 \o player2), label, out)

\* GamePredictor.predict_matchup
PredictMatchup(S, team1, team2, full, label, out) ==
  LET team1_info == GetTeamStats(team1, full)
      team2_info == GetTeamStats(team2, full)
  IN  IF ~team1_info.success \/ ~team2_info.success
      THEN [S EXCEPT !.val = Text("One or both teams not found")]
      ELSE Think(S, "GamePredictor", Query(S, "predict_matchup", team1 \o team2), label, out)

\* DraftProspect.scout_prospect: NBATool has no attribute web_search, so
\* self.tools.web_search(...) raises AttributeError
ScoutProspect(S, prospect_name) == [S EXCEPT !.exc = TRUE]

\* a review that hands the draft back without consulting the Reviewer
ReviewAnswerBypass(S, t, draft_answer, out) == [S EXCEPT !.val = draft_answer]

\* Reviewer.review_answer(task, draft_answer, stream=False)
ReviewAnswer(S, t, draft_answer, out) ==
  Think(S, "Reviewer", Query(S, "review", <<>>), "reviewer", out)

\* BaseAgent.think(query, stream=True), up to the return of the generator:
\* opened is FALSE when creating the stream raises
ThinkStream(S, agent, query, opened) ==
  LET S1 == AddToMemory(S, agent, "user", query)
      S2 == [S1 EXCEPT !.last_usage[agent] = <<>>]
  IN  IF opened THEN [S2 EXCEPT !.trace = Append(@, Ev("stream", "reviewer", 0))]
      ELSE [S2 EXCEPT !.trace = Append(@, Ev("failed_call", "reviewer", 0)), !.exc = TRUE]

\* Reviewer.review_answer(task, draft_answer, stream=True)
ReviewAnswerStream(S, t, draft_answer, opened) ==
  ThinkStream(S, "Reviewer", Query(S, "review", <<>>), opened)

\* ------------------------------------------------- coordinator operations
Placeholder == Text("Data unavailable due to API error.")

\* NBACrew.synthesize_responses
SynthesizeResponses(S, mapping, out) ==
  LET S1 == Completion([S EXCEPT !.responses = mapping], "synth", out)
  IN  Then(S1, LAMBDA R : LogUsage(R, UsageObject(R, "synth", out)))

\* NBACrew.query_knowledge_base: kb is what the vector store does
QueryKnowledgeBase(S, query, kb) ==
  LET S1 == Log(S, "Querying knowledge base", "INFO")
  IN  CASE kb = "documents" -> [S1 EXCEPT !.val = Val("documents", 0, "knowledge base", query)]
        [] kb = "empty" ->
             [S1 EXCEPT !.val = Text("No relevant information found in the knowledge base.")]
        [] OTHER ->
             [Log(S1, "Knowledge base query failed", "ERROR")
                EXCEPT !.val = Text("Error accessing the knowledge base.")]

\* NBACrew.ask_question; the question goes into the log line only (ghost
\* event "question": what was passed, the task or a value of params)
AskQuestion(S, question, label, out) ==
  LET S0 == [S EXCEPT !.trace = Append(@, Ev("question", question[1].kind, 0))]
      S1 == Completion(Log(S0, "Processing general question", "INFO"), label, out)
  IN  Then(S1, LAMBDA R : LogUsage(R, UsageObject(R, label, out)))

\* NBACrew._scout_player_with_usage
ScoutPlayerWithUsage(S, player_name, full, o) ==
  Then(ScoutPlayer(S, player_name, full, "scout1", o["scout1"]),
       LAMBDA R : LogUsage(R, R.last_usage["PlayerScout"]))

\* NBACrew._check_live_games_with_usage
CheckLiveGamesWithUsage(S) ==
  Then(CheckLiveGames(S), LAMBDA R : LogUsage(R, R.last_usage["StatsAnalyzer"]))

\* NBACrew._scout_prospect_with_usage
ScoutProspectWithUsage(S, prospect_name) ==
  Then(ScoutProspect(S, prospect_name), LAMBDA R : LogUsage(R, R.last_usage["DraftProspect"]))

\* NBACrew._web_search_wrapper: NBATool has no attribute web_search, so
\* self.tools.web_search(query) raises AttributeError
WebSearchWrapper(S, query) == [S EXCEPT !.exc = TRUE]

\* NBACrew.analyze_player_comprehensive
AnalyzePlayerComprehensive(S, player_name, full, o) ==
  LET S1 == Log(Log(S, "Analyzing player from multiple perspectives", "INFO"),
                "Stats Analyzer: Analyzing statistics", "INFO")
      R1 == AnalyzePlayer(S1, player_name, full, "analyzer1", o["analyzer1"])
  IN  Then(R1, LAMBDA A :
        LET S2 == Log(LogUsage(A, A.last_usage["StatsAnalyzer"]),
                      "Player Scout: Evaluating performance", "INFO")
            R2 == ScoutPlayer(S2, player_name, full, "scout1", o["scout1"])
        IN  Then(R2, LAMBDA B :
              LET S3 == Log(LogUsage(B, B.last_usage["PlayerScout"]),
                            "Synthesizing insights from all agents", "INFO")
              IN  SynthesizeResponses(S3,
                    {<<"stats_analysis", A.val>>, <<"scout_evaluation", B.val>>},
                    o["synth"])))

\* NBACrew.analyze_team_comprehensive
AnalyzeTeamComprehensive(S, team_name, full, o) ==
  LET S1 == Log(Log(S, "Analyzing team from multiple perspectives", "INFO"),
                "Stats Analyzer: Analyzing team statistics", "INFO")
      R1 == AnalyzeTeam(S1, team_name, full, "analyzer1", o["analyzer1"])
  IN  Then(R1, LAMBDA A :
        LET S2 == Log(LogUsage(A, A.last_usage["StatsAnalyzer"]), "Synthesizing insights", "INFO")
        IN  SynthesizeResponses(S2, {<<"team_stats", A.val>>}, o["synth"]))

\* NBACrew.evaluate_trade
EvaluateTrade(S, player1, player2, full, o) ==
  LET S1 == Log(Log(S, "Evaluating trade", "INFO"),
                "Trade Analyst: Analyzing trade scenario", "INFO")
      R1 == CompareForTrade(S1, player1, player2, full, "trader", o["trader"])
  IN  Then(R1, LAMBDA A :
        LET S2 == Log(LogUsage(A, A.last_usage["TradeAnalyst"]),
                      "Scout: Evaluating player value", "INFO")
            R2 == ScoutPlayer(S2, player1, full, "scout1", o["scout1"])
        IN  Then(R2, LAMBDA B :
              LET S3 == LogUsage(B, B.last_usage["PlayerScout"])
                  R3 == ScoutPlayer(S3, player2, full, "scout2", o["scout2"])
              IN  Then(R3, LAMBDA C :
                    LET S4 == Log(LogUsage(C, C.last_usage["PlayerScout"]),
                                  "Synthesizing trade insights", "INFO")
                    IN  SynthesizeResponses(S4,
                          {<<"trade_analysis", A.val>>,
                           <<"player_comparison", B.val \o Text("---") \o C.val>>},
                          o["synth"]))))

\* a handler that swallows the predictor's exception and stores nothing
PredictionBlockNoPlaceholder(S, team1, team2, full, out) ==
  LET R == PredictMatchup(Log(S, "Game Predictor: Analyzing matchup", "INFO"),
                          team1, team2, full, "predictor", out)
  IN  IF R.exc
      THEN [Log([R EXCEPT !.exc = FALSE], "Game Predictor Error", "ERROR")
              EXCEPT !.responses = {}]
      ELSE [LogUsage(R, R.last_usage["GamePredictor"])
              EXCEPT !.responses = {<<"prediction", R.val>>}]

\* predict_game, lines 326-332: the first try block and its handler
PredictionBlock(S, team1, team2, full, out) ==
  LET R == PredictMatchup(Log(S, "Game Predictor: Analyzing matchup", "INFO"),
                          team1, team2, full, "predictor", out)
  IN  IF R.exc
      THEN [Log([R EXCEPT !.exc = FALSE], "Game Predictor Error", "ERROR")
              EXCEPT !.responses = {<<"prediction", Placeholder>>}]
      ELSE [LogUsage(R, R.last_usage["GamePredictor"])
              EXCEPT !.responses = {<<"prediction", R.val>>}]

\* predict_game, lines 336-337: one statement of the second try block:
\* responses[key] = self.analyzer.analyze_team(team); self._log_usage(...)
TeamAnalysis(S, key, team, full, label, out) ==
  IF S.exc THEN S
  ELSE LET R == AnalyzeTeam(S, team, full, label, out)
       IN  IF R.exc THEN R
           ELSE LogUsage([R EXCEPT !.responses = Put(@, key, R.val)],
                         R.last_usage["StatsAnalyzer"])

\* predict_game, lines 338-340: the handler of the second try block
TeamAnalysisHandler(S) ==
  IF S.exc
  THEN [Log([S EXCEPT !.exc = FALSE], "Stats Analyzer Error", "ERROR")
          EXCEPT !.responses = Put(@, "team_analysis", Placeholder)]
  ELSE S

\* NBACrew.predict_game
PredictGame(S, team1, team2, full, o) ==
  LET P == PredictionBlock(Log(S, "Predicting", "INFO"), team1, team2, full, o["predictor"])
      T == TeamAnalysisHandler(
             TeamAnalysis(
               TeamAnalysis(Log(P, "Stats Analyzer: Analyzing both teams", "INFO"),
                            "team1_analysis", team1, full, "analyzer1", o["analyzer1"]),
               "team2_analysis", team2, full, "analyzer2", o["analyzer2"]))
      S3 == Log(T, "Synthesizing prediction", "INFO")
  IN  SynthesizeResponses(S3, S3.responses, o["synth"])

\* ------------------------------------------------------------ the topic gate
\* message.content of the gate's reply: None, or a text
GateTexts ==
  {<<"y", "e", "s">>, <<"Y", "e", "s">>, <<" ", "Y", "E", "S", "\n">>,
   <<"n", "o">>, <<"N", "O">>, <<>>}
GateContents ==
  {[none |-> TRUE, text |-> <<>>]} \cup {[none |-> FALSE, text |-> t] : t \in GateTexts}

\* a gate that rejects the task when its classification fails
OnTopicFailClosed(out, content) ==
  IF ~out.ok \/ content.none THEN FALSE
  ELSE Contains(Str_yes, Lower(Strip(content.text)))

\* NBACrew.is_task_on_topic, its value: True when the call raises, when
\* content.strip() raises on None, or when the reply contains "yes"
OnTopic(out, content) ==
  IF ~out.ok \/ content.none THEN TRUE
  ELSE Contains(Str_yes, Lower(Strip(content.text)))

\* NBACrew.is_task_on_topic, its effects: the usage of the gate's response is
\* not passed to _log_usage; an exception is caught
IsTaskOnTopic(S, out) ==
  [Completion(Log(S, "Checking if task is on-topic", "INFO"), "gate", out)
     EXCEPT !.exc = FALSE, !.val = <<>>]

\* ---------------------------------------------------------------- routing
\* a JSON value under the key "tool": a string, null, a list, or no such key
ToolValues ==
  {[type |-> "str", v |-> t] : t \in DispatchKeys \cup {"unknown_tool", ""}}
    \cup {[type |-> ty, v |-> ""] : ty \in {"null", "missing", "list"}}

\* all dicts with the keys ks and values from ArgValues, as sets of <<key, value>>
Dicts(ks) ==
  {{<<k, f[k]>> : k \in ks} : f \in [ks -> ArgValues]}

\* a JSON value under the key "params": a dict, null, or no such key
ParamValues(t) ==
  {[type |-> "dict", v |-> d] : d \in Dicts(ArgNames[t]) \cup {{<<"name", <<"A", "l">>>>}}}
    \cup {[type |-> ty, v |-> {}] : ty \in {"null", "missing"}}

\* what json.loads(content) gives for the router's reply
RouterReplies ==
  {[parse |-> p, tool |-> [type |-> "missing", v |-> ""], params |-> [type |-> "missing", v |-> {}]] :
      p \in {"invalid_json", "not_object"}}
    \cup UNION {{[parse |-> "ok", tool |-> tv, params |-> pv] : pv \in ParamValues(tv.v)} :
                  tv \in {x \in ToolValues : x.v \in DispatchKeys}}
    \cup {[parse |-> "ok", tool |-> tv, params |-> [type |-> "dict", v |-> {}]] :
            tv \in {x \in ToolValues : x.v \notin DispatchKeys}}

\* routing_decision.get("params", {})
GetParams(d) == IF d.params.type = "missing" THEN [type |-> "dict", v |-> {}] ELSE d.params

\* a routing that takes every string for a key of the table
RouteDecisionUnchecked(d) ==
  IF d.parse # "ok" THEN "except"
  ELSE IF d.tool.type = "list" THEN "except"
  ELSE IF d.tool.type = "str" THEN "dispatch"
  ELSE "unknown"

\* route_task, lines 178-192: what becomes of a parsed reply.  "except": an
\* exception (json.loads fails, the reply is no dict, the tool value is
\* unhashable); "dispatch": tool_dispatch.get(tool) is a function; "unknown":
\* it is None
RouteDecision(d) ==
  IF d.parse # "ok" THEN "except"
  ELSE IF d.tool.type = "list" THEN "except"
  ELSE IF d.tool.type = "str" /\ d.tool.v \in DispatchKeys THEN "dispatch"
  ELSE "unknown"

\* tool_function(**params): the call binds when params is a dict whose keys
\* are the function's arguments (TypeError otherwise)
BindOk(tool, params) ==
  /\ params.type = "dict"
  /\ \/ tool = "check_live_games"
     \/ {kv[1] : kv \in params.v} = ArgNames[tool]

Arg(params, k) == (CHOOSE kv \in params.v : kv[1] = k)[2]

\* ghost: an operation of the dispatch table is entered; via 0: through the
\* table, via 1: as the fallback.  The first one starts DISPATCH.
Invoked(S, name, via) ==
  LET started == \E i \in 1..Len(S.trace) : S.trace[i].ev = "op"
      T == IF started THEN S.trace ELSE Append(S.trace, Ev("phase", "DISPATCH", 0))
  IN  [S EXCEPT !.trace = Append(T, Ev("op", name, via))]

\* ghost: the value the router's reply holds under "tool".  n = 0: a string
\* (id), 1: null, 2: no such key, 3: a list or an object (unhashable)
Decided(S, tool) ==
  [S EXCEPT !.trace =
     Append(@, Ev("decided", tool.v,
                  CASE tool.type = "str" -> 0 [] tool.type = "null" -> 1
                    [] tool.type = "missing" -> 2 [] OTHER -> 3))]

\* ghost: an exception reaches the handler of route_task (line 194)
Raised(S) == [S EXCEPT !.trace = Append(@, Ev("raised", "route_task", 0))]

\* ------------------------------------------------------------------- state
Tasks == {"asdkjasd"}

OffTopicResponse == Text("I am an NBA-specialized AI assistant.")

Between == pc \in {"idle", "DONE", "RAISED"}

\* the arguments and local variables of run and route_task, when no run is
\* in progress
NoTask == ""
NoPending == [tool |-> "", params |-> [type |-> "dict", v |-> {}]]

Crew ==
  [memory |-> memory, last_usage |-> last_usage, run_usage |-> run_usage,
   log |-> log, history |-> conversation_history, trace |-> trace,
   responses |-> responses, reported |-> reported, run |-> runs, exc |-> FALSE, val |-> <<>>]

Store(R) ==
  /\ memory' = R.memory
  /\ last_usage' = R.last_usage
  /\ run_usage' = R.run_usage
  /\ log' = R.log
  /\ conversation_history' = R.history
  /\ trace' = R.trace
  /\ responses' = R.responses
  /\ reported' = R.reported

Init ==
  /\ pc = "idle"
  /\ runs = 0
  /\ task = NoTask
  /\ stream = FALSE
  /\ memory = [a \in Agents |-> <<>>]
  /\ last_usage = [a \in Agents |-> <<>>]
  /\ conversation_history = <<>>
  /\ run_usage = ZeroUsage
  /\ self_log = 0
  /\ log = <<>>
  /\ pending = NoPending
  /\ draft = <<>>
  /\ result = [shape |-> "none", answer |-> <<>>, log |-> 0, run |-> 0]
  /\ gens = <<>>
  /\ responses = {}
  /\ reported = 0
  /\ gate_reply = <<>>
  /\ trace = <<>>
  /\ streamed = FALSE
  /\ files = [k \in CacheKeys |-> <<>>]
  /\ now = 0
  /\ got = NoCall

\* ------------------------------------------------------------ NBACrew.run
\* self.log.clear(): the list object is kept and emptied in place
NewLogListInPlace(old, fresh) == old

\* self.log = []: the name is bound to a fresh list object
NewLogList(old, fresh) == fresh

\* run, lines 223-229: the tally and the log start anew, the first entry is
\* logged and every agent's memory is reset
StartRun(S) ==
  ResetMemory(Log([S EXCEPT !.run_usage = ZeroUsage, !.log = <<>>], "Executing task", "INFO"))

\* the shape of run's first return value
ReturnShape(st, on_topic) == IF ~on_topic \/ st THEN "generator" ELSE "str"

\* a return that never records the answer
CommitAnswerNever(S, st, answer) == S

\* a return that records the answer on the streaming path too
CommitAnswerAlways(S, st, answer) == AddToHistory(S, "assistant", answer)

\* run, lines 250-257: the non-streaming path appends the final answer
CommitAnswer(S, st, answer) == IF st THEN S ELSE AddToHistory(S, "assistant", answer)

\* closing entries that leave out the note on the Reviewer's usage
ClosingEntriesSummaryOnly(S) == Log(S, "Run complete. Total tracked tokens", "SUMMARY")

\* run, lines 247-248: the two entries logged after the Reviewer, whatever
\* the stream flag
ClosingEntries(S) ==
  Log(Log(S, "Usage for streaming Reviewer agent is not tracked.", "WARN"),
      "Run complete. Total tracked tokens", "SUMMARY")

\* run, lines 232-238: the off-topic return; nothing is added to the history
OffTopicReturn(S) == Log(S, "Task is off-topic", "WARN")

Phase(S, name) == [S EXCEPT !.trace = Append(@, Ev("phase", name, 0))]

\* what run returns: the answer (or the lazy sequence) and self.log, the
\* list object itself
Returned(shape, answer) ==
  [shape |-> shape, answer |-> answer, log |-> self_log, run |-> runs]

NewGen(kind) ==
  [g \in DOMAIN gens \cup {runs} |->
     IF g = runs THEN [kind |-> kind, state |-> "open", captured |-> 0] ELSE gens[g]]

\* the caller calls crew.run(task, stream)
Run(t, st) ==
  /\ Between
  /\ runs < MaxRuns
  /\ LET S == StartRun([Crew EXCEPT !.run = runs + 1])
         new == NewLogList(self_log, runs + 1)
     IN  /\ self_log' = new
         /\ log' = S.log
         /\ memory' = S.memory
         /\ last_usage' = S.last_usage
         /\ run_usage' = S.run_usage
  /\ runs' = runs + 1
  /\ task' = t
  /\ stream' = st
  /\ streamed' = (streamed \/ st)
  /\ trace' = <<Ev("phase", "GATE", Len(conversation_history))>>
  /\ reported' = 0
  /\ gate_reply' = <<>>
  /\ pc' = "GATE"
  /\ UNCHANGED <<conversation_history, pending, draft, result, gens, responses>>
  /\ UNCHANGED gateway_vars

\* run, lines 231-240: the gate, then the off-topic return or the user turn
Gate ==
  /\ pc = "GATE"
  /\ \E out \in Outcomes, content \in GateContents :
       LET S1 == IsTaskOnTopic(Crew, out)
           S2 == Phase(OffTopicReturn(S1), "DONE")
           shape == ReturnShape(stream, FALSE)
       IN  /\ gate_reply' = IF out.ok THEN <<content>> ELSE <<>>
           /\ IF OnTopic(out, content)
              THEN /\ Store(Phase(AddToHistory(S1, "user", Val("task", 0, task, <<>>)),
                                  "ROUTE"))
                   /\ pc' = "ROUTE"
                   /\ UNCHANGED <<task, result, gens>>
              ELSE /\ Store([S2 EXCEPT !.trace = Append(@, Ev("return", shape, 0))])
                   /\ pc' = "DONE"
                   /\ task' = NoTask
                   /\ result' = Returned(shape, OffTopicResponse)
                   /\ gens' = NewGen("canned")
  /\ UNCHANGED <<runs, stream, self_log, pending, draft>>
  /\ UNCHANGED <<streamed, gateway_vars>>

\* route_task, lines 149-192, up to the choice of the operation
RouteTask ==
  /\ pc = "ROUTE"
  /\ \E out \in Outcomes, d \in RouterReplies :
       LET S1 == Completion(Log(Crew, "Routing task", "INFO"), "router", out)
           S2 == LogUsage(S1, UsageObject(S1, "router", out))
           S3 == Decided(Log(S2, "Router decided to use", "INFO"), d.tool)
       IN  IF S1.exc
           THEN Store(Raised([S1 EXCEPT !.exc = FALSE])) /\ pc' = "EXCEPT" /\ UNCHANGED pending
           ELSE IF d.parse # "ok"
           THEN Store(Raised(S2)) /\ pc' = "EXCEPT" /\ UNCHANGED pending
           ELSE CASE RouteDecision(d) = "dispatch" ->
                       /\ Store(S3)
                       /\ pc' = "DISPATCH"
                       /\ pending' = [tool |-> d.tool.v, params |-> GetParams(d)]
                  [] RouteDecision(d) = "unknown" ->
                       Store(S3) /\ pc' = "UNKNOWN" /\ UNCHANGED pending
                  [] OTHER ->
                       Store(Raised(S3)) /\ pc' = "EXCEPT" /\ UNCHANGED pending
  /\ gate_reply' = <<>>
  /\ UNCHANGED <<runs, task, stream, self_log, draft, result, gens>>
  /\ UNCHANGED <<streamed, gateway_vars>>

\* an operation whose return is followed by the handler's fallback as well
FinishThroughHandler(R) ==
  /\ Store([R EXCEPT !.exc = FALSE])
  /\ pc' = "EXCEPT"
  /\ pending' = NoPending
  /\ UNCHANGED <<runs, task, stream, self_log, draft, result, gens, gate_reply>>
  /\ UNCHANGED <<streamed, gateway_vars>>

\* route_task, line 189: return tool_function(**params); R is the crew after
\* the operation. An exception goes to the handler of line 194.
Finish(R) ==
  /\ IF R.exc
     THEN Store(Raised([R EXCEPT !.exc = FALSE])) /\ pc' = "EXCEPT" /\ UNCHANGED draft
     ELSE Store(R) /\ pc' = "REVIEW" /\ draft' = R.val
  /\ pending' = NoPending
  /\ UNCHANGED <<runs, task, stream, self_log, result, gens, gate_reply>>
  /\ UNCHANGED <<streamed, gateway_vars>>

\* the crew when the call of pending.tool does not bind (TypeError)
Unbound == [Crew EXCEPT !.exc = TRUE]

Selected(tool) == pc = "DISPATCH" /\ pending.tool = tool

DispatchEvaluateTrade ==
  /\ Selected("evaluate_trade")
  /\ \E full \in BOOLEAN, o \in [{"trader", "scout1", "scout2", "synth"} -> Outcomes] :
       Finish(IF ~BindOk(pending.tool, pending.params) THEN Unbound
              ELSE EvaluateTrade(Invoked(Crew, pending.tool, 0), Arg(pending.params, "player1"),
                                 Arg(pending.params, "player2"), full, o))

DispatchPredictGame ==
  /\ Selected("predict_game")
  /\ \E full \in BOOLEAN, o \in [{"predictor", "analyzer1", "analyzer2", "synth"} -> Outcomes] :
       Finish(IF ~BindOk(pending.tool, pending.params) THEN Unbound
              ELSE PredictGame(Invoked(Crew, pending.tool, 0), Arg(pending.params, "team1"),
                               Arg(pending.params, "team2"), full, o))

DispatchScoutPlayer ==
  /\ Selected("scout_player")
  /\ \E full \in BOOLEAN, o \in [{"scout1"} -> Outcomes] :
       Finish(IF ~BindOk(pending.tool, pending.params) THEN Unbound
              ELSE ScoutPlayerWithUsage(Invoked(Crew, pending.tool, 0),
                                        Arg(pending.params, "player_name"), full, o))

DispatchAnalyzePlayerComprehensive ==
  /\ Selected("analyze_player_comprehensive")
  /\ \E full \in BOOLEAN, o \in [{"analyzer1", "scout1", "synth"} -> Outcomes] :
       Finish(IF ~BindOk(pending.tool, pending.params) THEN Unbound
              ELSE AnalyzePlayerComprehensive(Invoked(Crew, pending.tool, 0),
                                              Arg(pending.params, "player_name"), full, o))

DispatchAnalyzeTeamComprehensive ==
  /\ Selected("analyze_team_comprehensive")
  /\ \E full \in BOOLEAN, o \in [{"analyzer1", "synth"} -> Outcomes] :
       Finish(IF ~BindOk(pending.tool, pending.params) THEN Unbound
              ELSE AnalyzeTeamComprehensive(Invoked(Crew, pending.tool, 0),
                                            Arg(pending.params, "team_name"), full, o))

DispatchCheckLiveGames ==
  /\ Selected("check_live_games")
  /\ Finish(IF ~BindOk(pending.tool, pending.params) THEN Unbound
            ELSE CheckLiveGamesWithUsage(Invoked(Crew, pending.tool, 0)))

DispatchScoutProspect ==
  /\ Selected("scout_prospect")
  /\ Finish(IF ~BindOk(pending.tool, pending.params) THEN Unbound
            ELSE ScoutProspectWithUsage(Invoked(Crew, pending.tool, 0),
                                        Arg(pending.params, "prospect_name")))

DispatchQueryKnowledgeBase ==
  /\ Selected("query_knowledge_base")
  /\ \E kb \in {"documents", "empty", "error"} :
       Finish(IF ~BindOk(pending.tool, pending.params) THEN Unbound
              ELSE QueryKnowledgeBase(Invoked(Crew, pending.tool, 0),
                                      Arg(pending.params, "query"), kb))

DispatchWebSearch ==
  /\ Selected("web_search")
  /\ Finish(IF ~BindOk(pending.tool, pending.params) THEN Unbound
            ELSE WebSearchWrapper(Invoked(Crew, pending.tool, 0), Arg(pending.params, "query")))

DispatchAskQuestion ==
  /\ Selected("ask_question")
  /\ \E out \in Outcomes :
       Finish(IF ~BindOk(pending.tool, pending.params) THEN Unbound
              ELSE AskQuestion(Invoked(Crew, pending.tool, 0),
                               Val("param", 0, "question", Arg(pending.params, "question")),
                               "ask", out))

\* route_task, lines 190-192: no such tool; WARN and the generic Q&A path,
\* still inside the try block
UnknownTool ==
  /\ pc = "UNKNOWN"
  /\ \E out \in Outcomes :
       Finish(AskQuestion(Invoked(Log(Crew, "Unknown tool decided by router. Falling back.", "WARN"),
                                  "ask_question", 1),
                          Val("task", 0, task, <<>>), "ask", out))

\* route_task, lines 194-196: the handler; an exception of this ask_question
\* leaves route_task and run
RoutingError ==
  /\ pc = "EXCEPT"
  /\ \E out \in Outcomes :
       LET R == AskQuestion(Invoked(Log(Crew, "Routing Error. Falling back to general question.", "ERROR"),
                                    "ask_question", 1),
                            Val("task", 0, task, <<>>), "ask_fb", out)
       IN  IF R.exc
           THEN /\ Store([R EXCEPT !.exc = FALSE, !.responses = {}])
                /\ pc' = "RAISED"
                /\ task' = NoTask
                /\ UNCHANGED draft
           ELSE /\ Store(R)
                /\ pc' = "REVIEW"
                /\ draft' = R.val
                /\ UNCHANGED task
  /\ UNCHANGED <<runs, stream, self_log, pending, result, gens, gate_reply>>
  /\ UNCHANGED <<streamed, gateway_vars>>

\* run, lines 243-257: the Reviewer, the closing log entries, the return
Review ==
  /\ pc = "REVIEW"
  /\ \E out \in Outcomes :
       LET S1 == Phase(Log(Crew, "Reviewer: Reviewing final answer", "INFO"), "REVIEW")
           R  == IF stream THEN ReviewAnswerStream(S1, task, draft, out.ok)
                 ELSE ReviewAnswer(S1, task, draft, out)
           S2 == LogUsage(R, R.last_usage["Reviewer"])
           S3 == ClosingEntries(S2)
           S4 == Phase(CommitAnswer(S3, stream, R.val), "DONE")
           shape == ReturnShape(stream, TRUE)
       IN  IF R.exc
           THEN /\ Store([R EXCEPT !.exc = FALSE, !.responses = {}])
                /\ pc' = "RAISED"
                /\ UNCHANGED <<result, gens>>
           ELSE /\ Store([S4 EXCEPT !.trace = Append(@, Ev("return", shape, 0)), !.responses = {}])
                /\ pc' = "DONE"
                /\ result' = Returned(shape, IF stream THEN <<>> ELSE R.val)
                /\ gens' = IF stream THEN NewGen("stream") ELSE gens
  /\ task' = NoTask
  /\ draft' = <<>>
  /\ UNCHANGED <<runs, stream, self_log, pending, gate_reply>>
  /\ UNCHANGED <<streamed, gateway_vars>>

\* NBACrew.clear_history
ClearHistory ==
  /\ Between
  /\ conversation_history # <<>>
  /\ conversation_history' = <<>>
  /\ trace' = <<>>
  /\ UNCHANGED <<pc, runs, task, stream, memory, last_usage, run_usage, self_log, log,
                 pending, draft, result, gens, responses, reported, gate_reply>>
  /\ UNCHANGED <<streamed, gateway_vars>>

\* ------------------------------------------------- the caller drains a stream
\* a generator that has finished (exhausted or failed) is dropped
Drop(g) == [h \in DOMAIN gens \ {g} |-> gens[h]]

\* stream_and_capture: a chunk with content is captured and yielded
NextChunk(g) ==
  /\ Between
  /\ gens[g].kind = "stream" /\ gens[g].state = "open"
  /\ gens[g].captured < MaxChunks
  /\ gens' = [gens EXCEPT ![g].captured = @ + 1]
  /\ UNCHANGED <<pc, runs, task, stream, memory, last_usage, conversation_history, run_usage,
                 self_log, log, pending, draft, result, responses, reported, gate_reply, trace>>
  /\ UNCHANGED <<streamed, gateway_vars>>

\* stream_and_capture: the stream ends, the joined text goes to self.memory
StreamEnd(g) ==
  /\ Between
  /\ gens[g].kind = "stream" /\ gens[g].state = "open"
  /\ gens' = Drop(g)
  /\ memory' = [memory EXCEPT !["Reviewer"] =
                  Append(@, [role |-> "assistant", content |-> Reply(g, "reviewer"), run |-> g])]
  /\ UNCHANGED <<pc, runs, task, stream, last_usage, conversation_history, run_usage,
                 self_log, log, pending, draft, result, responses, reported, gate_reply, trace>>
  /\ UNCHANGED <<streamed, gateway_vars>>

\* stream_and_capture: the network stream raises while it is iterated
StreamError(g) ==
  /\ Between
  /\ gens[g].kind = "stream" /\ gens[g].state = "open"
  /\ gens' = Drop(g)
  /\ UNCHANGED <<pc, runs, task, stream, memory, last_usage, conversation_history, run_usage,
                 self_log, log, pending, draft, result, responses, reported, gate_reply, trace>>
  /\ UNCHANGED <<streamed, gateway_vars>>

\* generator() of the off-topic return yields its one text
NextCanned(g) ==
  /\ Between
  /\ gens[g].kind = "canned" /\ gens[g].state = "open"
  /\ gens' = Drop(g)
  /\ UNCHANGED <<pc, runs, task, stream, memory, last_usage, conversation_history, run_usage,
                 self_log, log, pending, draft, result, responses, reported, gate_reply, trace>>
  /\ UNCHANGED <<streamed, gateway_vars>>

Next ==
  \/ \E t \in Tasks, st \in BOOLEAN : Run(t, st)
  \/ Gate
  \/ RouteTask
  \/ DispatchEvaluateTrade
  \/ DispatchPredictGame
  \/ DispatchScoutPlayer
  \/ DispatchAnalyzePlayerComprehensive
  \/ DispatchAnalyzeTeamComprehensive
  \/ DispatchCheckLiveGames
  \/ DispatchScoutProspect
  \/ DispatchQueryKnowledgeBase
  \/ DispatchWebSearch
  \/ DispatchAskQuestion
  \/ UnknownTool
  \/ RoutingError
  \/ Review
  \/ ClearHistory
  \/ \E g \in DOMAIN gens : NextChunk(g)
  \/ \E g \in DOMAIN gens : StreamEnd(g)
  \/ \E g \in DOMAIN gens : StreamError(g)
  \/ \E g \in DOMAIN gens : NextCanned(g)

Spec == Init /\ [][Next]_vars

\* ------------------------------------------- the cache and the data gateway
\* The callers of cache.py and tools.py, one call at a time.  DATA_MODE and
\* what the upstream endpoints do are the environment.

\* the names looked up: the roster's player and team in mixed case, the
\* team's nickname, and a name of no roster entry
LookupNames == {<<"A", "l">>, <<"a", "L">>, <<"L", "A">>, <<"l">>, <<"A">>}
\* what the attempts of one fetch do: some raise, then one raises, gives an
\* empty frame or gives stats (what follows it is never tried)
Attempts ==
  {[i \in 1..RetryAttempts |-> IF i < k THEN "raise" ELSE o] :
     k \in 1..RetryAttempts, o \in FetchOutcomes}
\* the names compared: the player in mixed case and a name of no player
CompareNames == {<<"A", "l">>, <<"a", "L">>, <<"A">>}
\* the mode of the build with what the endpoint does; in "LITE" mode the
\* endpoint is never called, so one plan stands for all
Fetches ==
  {<<"LITE", [i \in 1..RetryAttempts |-> "raise"]>>} \cup {<<"FULL", att>> : att \in Attempts}

\* cache_manager.set(key, value, ttl_hours); repaired: the set replaces a
\* damaged file
Set(key, value, ttl_hours) ==
  /\ files' = CacheSet(files, key, value, ttl_hours, now)
  /\ got' = [op |-> "set", key |-> key, ttl |-> ttl_hours,
             repaired |-> files[key] # <<>> /\ files[key][1].damage # ""]
  /\ UNCHANGED <<now, crew_vars>>

\* cache_manager.get(key).  had: the file the call found; after_set: the
\* ttl_hours of the set of this key that came right before, -1 if something
\* else came before; repaired: that set replaced a damaged file
Get(key) ==
  LET c == CacheGet(files, key, now)
      follows == got.op = "set" /\ got.key = key
  IN  /\ files' = c.files
      /\ got' = [op |-> "get", key |-> key, ttl |-> 0, value |-> c.value,
                 printed |-> c.printed, had |-> files[key],
                 after_set |-> IF follows THEN got.ttl ELSE -1,
                 repaired |-> follows /\ got.repaired]
      /\ UNCHANGED <<now, crew_vars>>

\* cache_manager.clear()
Clear ==
  /\ files' = CacheClear(files)
  /\ got' = [op |-> "clear", key |-> <<>>, ttl |-> 0]
  /\ UNCHANGED <<now, crew_vars>>

\* cache_manager.clear_key(key)
ClearKey(key) ==
  /\ files' = CacheClearKey(files, key)
  /\ got' = [op |-> "clear_key", key |-> key, ttl |-> 0]
  /\ UNCHANGED <<now, crew_vars>>

\* an hour passes
Tick ==
  /\ now < MaxClock
  /\ now' = now + 1
  /\ got' = [op |-> "tick", key |-> <<>>, ttl |-> 0]
  /\ UNCHANGED <<files, crew_vars>>

\* the file of key is damaged on disk (a torn write, an edit by hand)
Damage(key, d) ==
  /\ files[key] # <<>>
  /\ files[key][1].damage = ""
  /\ files' = [files EXCEPT ![key] =
                 <<IF d = "invalid_json" THEN [@[1] EXCEPT !.parses = FALSE, !.damage = d]
                   ELSE [@[1] EXCEPT !.damage = d,
                                     !.fields =
                                       @ \ {CASE d = "no_timestamp" -> "timestamp"
                                              [] d = "no_ttl_hours" -> "ttl_hours"
                                              [] OTHER -> "value"}]>>]
  /\ got' = [op |-> "damage", key |-> key, ttl |-> 0]
  /\ UNCHANGED <<now, crew_vars>>

CacheNext ==
  \/ \E k \in CacheKeys : \E v \in CacheValues(k), ttl \in Ttls : Set(k, v, ttl)
  \/ \E k \in CacheKeys : Get(k)
  \/ Clear
  \/ \E k \in CacheKeys : ClearKey(k)
  \/ Tick
  \/ \E k \in CacheKeys, d \in Damages : Damage(k, d)

CacheSpec == Init /\ [][CacheNext]_vars

\* the summary of a lookup kept in got
Looked(op, name, mode, att, r, envelope) ==
  [op |-> op, key |-> r.key, ttl |-> 0, name |-> name, found |-> r.found, hit |-> r.hit,
   had |-> r.had, wiki |-> r.wiki,
   fetched |-> r.found /\ ~r.hit /\ mode = "FULL",
   all_failed |-> \A i \in 1..RetryAttempts : att[i] = "raise",
   tries |-> r.tries, raised |-> r.raised, envelope |-> envelope]

\* NBATool.get_player_stats(name)
GetPlayerStatsCall(name, mode, att) ==
  LET r == PlayerInfoAt(files, name, mode, att, now)
  IN  /\ files' = r.files
      /\ got' = Looked("get_player_stats", name, mode, att, r, GetPlayerStats(name, r.full))
      /\ UNCHANGED <<now, crew_vars>>

\* NBATool.get_team_stats(name)
GetTeamStatsCall(name, mode, att) ==
  LET r == TeamInfoAt(files, name, mode, att, now)
  IN  /\ files' = r.files
      /\ got' = Looked("get_team_stats", name, mode, att, r, GetTeamStats(name, r.full))
      /\ UNCHANGED <<now, crew_vars>>

\* NBATool.compare_players(player1, player2): two lookups, then the
\* comparison.  The roster has one player, so when both names are found the
\* second lookup reads what the first has cached.
ComparePlayersCall(player1, player2, mode, att) ==
  LET r1 == PlayerInfoAt(files, player1, mode, att, now)
      r2 == PlayerInfoAt(r1.files, player2, mode, att, now)
      full == IF r1.found THEN r1.full ELSE r2.full
      c == ComparePlayers(player1, player2, full)
  IN  /\ files' = r2.files
      /\ got' = [op |-> "compare_players", key |-> <<>>, ttl |-> 0,
                 player1 |-> player1, player2 |-> player2,
                 success1 |-> GetPlayerStats(player1, full).success,
                 success2 |-> GetPlayerStats(player2, full).success,
                 raised |-> c.raised, envelope |-> c.envelope]
      /\ UNCHANGED <<now, crew_vars>>

GatewayNext ==
  \/ \E name \in LookupNames, f \in Fetches : GetPlayerStatsCall(name, f[1], f[2])
  \/ \E name \in LookupNames, f \in Fetches : GetTeamStatsCall(name, f[1], f[2])
  \/ \E a, b \in CompareNames, f \in Fetches : ComparePlayersCall(a, b, f[1], f[2])
  \/ Clear
  \/ Tick

GatewaySpec == Init /\ [][GatewayNext]_vars

\* ------------------------------------------------ specialist entry points
\* The callers of agents.py, one call of an entry point at a time, on
\* specialists that have each answered one query before.

\* agent has answered one query
Earlier(S, agent) ==
  Think(S, agent, Query(S, "earlier", <<>>), "earlier", CHOOSE o \in Outcomes : o.ok)

\* the crew after each specialist has answered one query
Warmed ==
  [Earlier(Earlier(Earlier(Earlier(Earlier(Crew, "StatsAnalyzer"), "PlayerScout"),
                           "TradeAnalyst"), "GamePredictor"), "DraftProspect")
     EXCEPT !.val = <<>>]

\* the team in mixed case, its nickname, and a name of no team
TeamNames == {<<"L", "A">>, <<"l">>, <<"A">>}
\* the build is in Lite mode, or in Full mode with an endpoint that answers
EntryFetches ==
  {<<"LITE", [i \in 1..RetryAttempts |-> "raise"]>>,
   <<"FULL", [i \in 1..RetryAttempts |-> "stats"]>>}

\* the summary of a call of an entry point kept in got: envelopes are the
\* ToolEnvelopes its gateway calls returned, calls the number of completion
\* calls it made, before and after the memories of the specialists
Entered(ep, R, envelopes) ==
  [op |-> "entry", key |-> <<>>, ttl |-> 0, ep |-> ep, envelopes |-> envelopes,
   val |-> R.val, exc |-> R.exc, calls |-> Len(R.trace) - Len(Warmed.trace),
   before |-> [memory |-> Warmed.memory, last_usage |-> Warmed.last_usage],
   after |-> [memory |-> R.memory, last_usage |-> R.last_usage]]

\* StatsAnalyzer.analyze_player(name)
AnalyzePlayerCall(name, f, out) ==
  LET r == PlayerInfoAt(files, name, f[1], f[2], now)
  IN  /\ files' = r.files
      /\ got' = Entered("analyze_player", AnalyzePlayer(Warmed, name, r.full, "analyzer1", out),
                        <<GetPlayerStats(name, r.full)>>)
      /\ UNCHANGED <<now, crew_vars>>

\* StatsAnalyzer.analyze_team(name)
AnalyzeTeamCall(name, f, out) ==
  LET r == TeamInfoAt(files, name, f[1], f[2], now)
  IN  /\ files' = r.files
      /\ got' = Entered("analyze_team", AnalyzeTeam(Warmed, name, r.full, "analyzer1", out),
                        <<GetTeamStats(name, r.full)>>)
      /\ UNCHANGED <<now, crew_vars>>

\* StatsAnalyzer.check_live_games(): no envelope is ever obtained
CheckLiveGamesCall ==
  /\ got' = Entered("check_live_games", CheckLiveGames(Warmed), <<>>)
  /\ UNCHANGED <<files, now, crew_vars>>

\* PlayerScout.scout_player(name)
ScoutPlayerCall(name, f, out) ==
  LET r == PlayerInfoAt(files, name, f[1], f[2], now)
  IN  /\ files' = r.files
      /\ got' = Entered("scout_player", ScoutPlayer(Warmed, name, r.full, "scout1", out),
                        <<GetPlayerStats(name, r.full)>>)
      /\ UNCHANGED <<now, crew_vars>>

\* TradeAnalyst.compare_for_trade(player1, player2): compare_players gives
\* an envelope unless it raises
CompareForTradeCall(player1, player2, f, out) ==
  LET r1 == PlayerInfoAt(files, player1, f[1], f[2], now)
      r2 == PlayerInfoAt(r1.files, player2, f[1], f[2], now)
      full == IF r1.found THEN r1.full ELSE r2.full
      c == ComparePlayers(player1, player2, full)
  IN  /\ files' = r2.files
      /\ got' = Entered("compare_for_trade",
                        CompareForTrade(Warmed, player1, player2, full, "trader", out),
                        IF c.raised THEN <<>> ELSE <<c.envelope>>)
      /\ UNCHANGED <<now, crew_vars>>

\* GamePredictor.predict_matchup(team1, team2): both lookups are made before
\* either envelope is tested
PredictMatchupCall(team1, team2, f, out) ==
  LET r1 == TeamInfoAt(files, team1, f[1], f[2], now)
      r2 == TeamInfoAt(r1.files, team2, f[1], f[2], now)
      full == IF r1.found THEN r1.full ELSE r2.full
  IN  /\ files' = r2.files
      /\ got' = Entered("predict_matchup",
                        PredictMatchup(Warmed, team1, team2, full, "predictor", out),
                        <<GetTeamStats(team1, full), GetTeamStats(team2, full)>>)
      /\ UNCHANGED <<now, crew_vars>>

\* DraftProspect.scout_prospect(name): no envelope is ever obtained
ScoutProspectCall(name) ==
  /\ got' = Entered("scout_prospect", ScoutProspect(Warmed, name), <<>>)
  /\ UNCHANGED <<files, now, crew_vars>>

\* the crew after each specialist has answered one query and one turn has
\* been exchanged with the user
Talked ==
  AddToHistory(AddToHistory(Warmed, "user", Val("task", 0, "asdkjasd", <<>>)),
               "assistant", Reply(0, "reviewer"))

\* agent.think(query), on a fresh crew or on one that has talked; got keeps
\* the request sent and the memories and history before and after
ThinkCall(agent, kind, out, talked) ==
  LET pre == IF talked THEN Talked ELSE Crew
      query == Query(pre, kind, <<>>)
      R == Think(pre, agent, query, "think", out)
  IN  /\ got' = [op |-> "think", key |-> <<>>, ttl |-> 0, agent |-> agent, query |-> query,
                 request |-> ThinkRequest(pre, agent, query), val |-> R.val, exc |-> R.exc,
                 before |-> [memory |-> pre.memory, history |-> pre.history],
                 after |-> [memory |-> R.memory, history |-> R.history]]
      /\ UNCHANGED <<files, now, crew_vars>>

EntryNext ==
  \/ \E agent \in Agents, kind \in {"q1", "q2"}, out \in Outcomes, talked \in BOOLEAN :
       ThinkCall(agent, kind, out, talked)
  \/ \E name \in CompareNames, f \in EntryFetches, out \in Outcomes : AnalyzePlayerCall(name, f, out)
  \/ \E name \in TeamNames, f \in EntryFetches, out \in Outcomes : AnalyzeTeamCall(name, f, out)
  \/ CheckLiveGamesCall
  \/ \E name \in CompareNames, f \in EntryFetches, out \in Outcomes : ScoutPlayerCall(name, f, out)
  \/ \E a, b \in CompareNames, f \in EntryFetches, out \in Outcomes : CompareForTradeCall(a, b, f, out)
  \/ \E a, b \in TeamNames, f \in EntryFetches, out \in Outcomes : PredictMatchupCall(a, b, f, out)
  \/ \E name \in CompareNames : ScoutProspectCall(name)
  \/ Clear

EntrySpec == Init /\ [][EntryNext]_vars

\* ------------------------------------------------------- the retry wrapper
\* One call of a function wrapped with retry(attempts, delay), an iteration
\* of the wrapper's loop at a time.  got holds the call: seen are the
\* outcomes of the invocations made, waits the delays slept.

\* a wrapper that takes a None result for a failure and tries again
RetryStepRetriesNone(c, o) ==
  LET seen == Append(c.seen, o)
  IN  IF o = "stats"
      THEN [c EXCEPT !.seen = seen, !.state = "returned", !.value = <<StatsRecord>>]
      ELSE IF Len(seen) = c.attempts
      THEN [c EXCEPT !.seen = seen, !.state = "returned", !.value = <<>>]
      ELSE [c EXCEPT !.seen = seen, !.waits = Append(@, c.delay)]

\* stats.retry, lines 13-21: one iteration of the loop, o being what the
\* invocation of func does
RetryStep(c, o) ==
  LET seen == Append(c.seen, o)
  IN  IF o # "raise"
      THEN [c EXCEPT !.seen = seen, !.state = "returned",
                     !.value = IF o = "stats" THEN <<StatsRecord>> ELSE <<>>]
      ELSE IF Len(seen) = c.attempts
      THEN [c EXCEPT !.seen = seen, !.state = "returned", !.value = <<>>]
      ELSE [c EXCEPT !.seen = seen, !.waits = Append(@, c.delay)]

\* a call of the wrapper is in progress
Retrying == got.op = "retry" /\ got.state = "running"

\* the wrapped function is called
RetryCall(attempts, delay) ==
  /\ ~Retrying
  /\ got' = [op |-> "retry", key |-> <<>>, ttl |-> 0, attempts |-> attempts, delay |-> delay,
             seen |-> <<>>, waits |-> <<>>, state |-> "running", value |-> <<>>,
             raised |-> FALSE]
  /\ UNCHANGED <<files, now, crew_vars>>

\* the loop invokes func once
RetryAttempt ==
  /\ Retrying
  /\ \E o \in FetchOutcomes : got' = RetryStep(got, o)
  /\ UNCHANGED <<files, now, crew_vars>>

RetryNext ==
  \/ \E attempts \in 1..MaxAttempts, delay \in 0..MaxDelay : RetryCall(attempts, delay)
  \/ RetryAttempt

\* the loop is sequential code: a call in progress goes on
RetrySpec == Init /\ [][RetryNext]_vars /\ WF_vars(RetryAttempt)

\* ============================================================ properties
\* a run is in progress: run was called and has neither returned nor raised
InRun == ~Between

Has(kind, id) == \E i \in 1..Len(trace) : trace[i].ev = kind /\ trace[i].id = id

Indices(kind) == {i \in 1..Len(trace) : trace[i].ev = kind}

\* the phases the current run has gone through, in order
PhaseEvents == SelectSeq(trace, LAMBDA e : e.ev = "phase")
PhaseIds == [i \in 1..Len(PhaseEvents) |-> PhaseEvents[i].id]
PhaseOrder == <<"GATE", "ROUTE", "DISPATCH", "REVIEW", "DONE">>

\* the run that has just returned, before the caller uses the crew again
ReturnedOffTopic == pc = "DONE" /\ PhaseIds = <<"GATE", "DONE">>
ReturnedOnTopic == pc = "DONE" /\ PhaseIds = PhaseOrder

\* ---------------------------------------------------------------- C1
\* C1: during run k, no agent's memory holds a turn (query or reply) that was
\* produced during an earlier run j < k: every turn in every one of the six
\* memories carries the number of the run in progress.
C1_NoTurnOfEarlierRun ==
  InRun => \A a \in Agents : \A i \in 1..Len(memory[a]) : memory[a][i].run = runs

\* the second run is under way with turns of its own, after a first run whose
\* Reviewer had filled its memory
C1_Witness ==
  /\ runs = 2 /\ pc = "REVIEW"
  /\ result.run = 1 /\ result.shape = "str"
  /\ memory["Reviewer"] = <<>>
  /\ \E a \in Agents : memory[a] # <<>>

\* ---------------------------------------------------------------- C2
\* C2: after a non-streaming run completes, run_usage.total_tokens equals the
\* sum of the total_tokens reported by the non-streaming completion calls of
\* that run, each counted exactly once.
C2_TallyIsSumOfReported ==
  (pc = "DONE" /\ ~stream) => run_usage.total_tokens = reported

\* ---------------------------------------------------------------- C3
\* C3: the tally and the log are scoped to one run.  Right after run's reset
\* the counters are zero and the log holds the entry "Executing task" alone;
\* every entry of the log was appended during the run in progress (or the
\* one just finished) and the first is "Executing task"; every usage object
\* added to the tally comes from a call of that run; and while run k+1 is in
\* progress the crew appends to a list object other than the one run k
\* returned, so that list is not modified.
C3_TallyAndLogScopedToRun ==
  /\ pc = "GATE" => /\ run_usage = ZeroUsage
                    /\ Len(log) = 1
  /\ runs >= 1 => /\ log # <<>>
                  /\ log[1].message = "Executing task"
                  /\ \A i \in 1..Len(log) : log[i].run = runs
  /\ \A i \in Indices("tally") : trace[i].n = runs
  /\ (InRun /\ result.shape # "none") => result.log # self_log

\* the second run has tallied tokens and logged entries while the caller
\* still holds the list the first run returned
C3_Witness ==
  /\ runs = 2 /\ pc = "REVIEW"
  /\ result.run = 1
  /\ run_usage.total_tokens > 0
  /\ Len(log) > 1

\* ---------------------------------------------------------------- C4
\* the reply holds no "yes" in any mix of upper and lower case
NoYes(text) ==
  \A i \in 1..(Len(text) - 2) :
    ~(text[i] \in {"y", "Y"} /\ text[i + 1] \in {"e", "E"} /\ text[i + 2] \in {"s", "S"})

\* C4: the gate fails open.  When the gate's completion call raises, run goes
\* on to ROUTE and does not return the off-topic message; in ROUTE the user
\* turn with the task is the entry run has just appended to the history,
\* whether the gate answered or failed; and run returns the off-topic message
\* only when the gate's call succeeded with a reply that holds no "yes".
C4_GateFailsOpen ==
  /\ Has("failed_call", "gate") => Has("phase", "ROUTE")
  /\ pc = "ROUTE" =>
       /\ Len(conversation_history) = trace[1].n + 1
       /\ conversation_history[Len(conversation_history)]
            = [role |-> "user", content |-> Val("task", 0, task, <<>>)]
  /\ ReturnedOffTopic =>
       /\ Has("call", "gate")
       /\ gate_reply # <<>>
       /\ ~gate_reply[1].none
       /\ NoYes(gate_reply[1].text)

\* the gate's call raised and the run stands in ROUTE
C4_Witness == pc = "ROUTE" /\ Has("failed_call", "gate")

\* ---------------------------------------------------------------- C5
\* how often and where the Reviewer was asked in the current run
ReviewerCalls == {i \in 1..Len(trace) : trace[i].ev \in {"call", "stream"} /\ trace[i].id = "reviewer"}

\* C5: the phases of a run are a prefix of GATE, ROUTE, DISPATCH, REVIEW, DONE
\* or exactly GATE, DONE.  A run that returns by the shortcut returns the
\* canned off-topic text, its last log entry is a WARN, and it has made no
\* completion call but the gate's and invoked no operation.  A run that
\* returns for an on-topic task has asked the Reviewer exactly once, after
\* every operation and every other call of the run and before the return,
\* and what it returns is the Reviewer's output (its reply, or its stream).
C5_PhaseOrder ==
  /\ trace # <<>> =>
       \/ \E k \in 1..Len(PhaseOrder) : PhaseIds = SubSeq(PhaseOrder, 1, k)
       \/ PhaseIds = <<"GATE", "DONE">>
  /\ pc = "DONE" /\ trace # <<>> => ReturnedOffTopic \/ ReturnedOnTopic
  /\ ReturnedOffTopic =>
       /\ result.answer = OffTopicResponse /\ result.run = runs
       /\ log[Len(log)].level = "WARN"
       /\ \A i \in 1..Len(trace) :
            trace[i].ev \in {"call", "failed_call", "stream", "op", "decided", "tally"}
              => trace[i].ev = "call" /\ trace[i].id = "gate"
  /\ ReturnedOnTopic =>
       /\ result.run = runs
       /\ Cardinality(ReviewerCalls) = 1
       /\ ~Has("failed_call", "reviewer")
       /\ \A r \in ReviewerCalls :
            /\ \A i \in 1..Len(trace) :
                 (trace[i].ev \in {"op", "call", "failed_call", "decided", "raised"} /\ i # r)
                   => i < r
            /\ \A i \in Indices("return") : r < i
       /\ IF stream
          THEN /\ result.shape = "generator"
               /\ runs \in DOMAIN gens => gens[runs].kind = "stream"
          ELSE /\ result.shape = "str"
               /\ result.answer = Reply(runs, "reviewer")

\* an on-topic run has gone through the five phases and returned the
\* Reviewer's reply
C5_Witness ==
  /\ ReturnedOnTopic /\ ~stream
  /\ Has("op", "evaluate_trade")
  /\ result.answer = Reply(runs, "reviewer")

\* ---------------------------------------------------------------- C6
\* C6 as stated: whenever a non-streaming run has returned, through REVIEW or
\* through the off-topic shortcut, the last entry of the history is an
\* assistant turn whose content is the returned answer.
C6_AnswerCommittedOnEveryReturn ==
  (pc = "DONE" /\ ~stream /\ trace # <<>>) =>
     /\ conversation_history # <<>>
     /\ conversation_history[Len(conversation_history)]
          = [role |-> "assistant", content |-> result.answer]

\* C6, amended: when a non-streaming run has returned through REVIEW it has
\* appended two turns, the user turn and then an assistant turn whose content
\* is the returned answer; when it has returned through the off-topic
\* shortcut it has appended nothing to the history.
C6_AnswerCommittedAfterReview ==
  /\ (ReturnedOnTopic /\ ~stream) =>
       /\ Len(conversation_history) = trace[1].n + 2
       /\ conversation_history[Len(conversation_history) - 1].role = "user"
       /\ conversation_history[Len(conversation_history)]
            = [role |-> "assistant", content |-> result.answer]
  /\ (ReturnedOffTopic /\ ~stream) => Len(conversation_history) = trace[1].n

\* the second non-streaming run has returned through REVIEW, four turns stand
\* in the history
C6_Witness ==
  /\ ReturnedOnTopic /\ ~stream
  /\ runs = 2 /\ Len(conversation_history) = 4
  /\ result.answer = Reply(2, "reviewer")

\* ---------------------------------------------------------------- C7
\* C7: when a streaming run has returned for an on-topic task, the user turn
\* is the only entry it has added to the history, and this stays so while
\* the caller drains the returned sequence, to its end or to a failure: the
\* last entry is the user turn, no assistant turn follows it.
C7_StreamingCommitLeftToCaller ==
  (ReturnedOnTopic /\ stream) =>
     /\ Len(conversation_history) = trace[1].n + 1
     /\ \E t \in Tasks :
          conversation_history[Len(conversation_history)]
            = [role |-> "user", content |-> Val("task", 0, t, <<>>)]

\* the caller has drained the stream to its end: the Reviewer's memory holds
\* the captured reply, the history does not
C7_Witness ==
  /\ ReturnedOnTopic /\ stream
  /\ runs \notin DOMAIN gens
  /\ Len(memory["Reviewer"]) = 2
  /\ memory["Reviewer"][2].role = "assistant"

\* ---------------------------------------------------------------- C8
\* the router's reply holds a key of the dispatch table under "tool"
IsKey(e) == e.n = 0 /\ e.id \in DispatchKeys

TableOps == {i \in Indices("op") : trace[i].n = 0}

Logged(level, message) ==
  \E i \in 1..Len(log) : log[i].level = level /\ log[i].message = message

\* a table operation runs only for the key the router named, and a value that
\* is no key starts none
OnlyKeysDispatched ==
  /\ pc = "DISPATCH" => pending.tool \in DispatchKeys
  /\ \A i \in TableOps :
       /\ trace[i].id \in DispatchKeys
       /\ \E j \in Indices("decided") : j < i /\ IsKey(trace[j]) /\ trace[j].id = trace[i].id
  /\ \A j \in Indices("decided") : ~IsKey(trace[j]) => TableOps = {}

\* route_task has returned the answer of ask_question(task)
ReturnedFallback ==
  /\ draft \in {Reply(runs, "ask"), Reply(runs, "ask_fb")}
  /\ \E i \in Indices("op") : trace[i].n = 1 /\ trace[i].id = "ask_question"
  /\ \A i \in Indices("question") : trace[i].id = "task"

\* C8 as stated: when the router's "tool" value is missing, null or no key of
\* the table, route_task invokes no table operation, logs a WARN entry and
\* returns the result of ask_question(task); a table operation is invoked
\* only for a key of the table.
C8_UnknownToolWarnsAndFallsBack ==
  /\ OnlyKeysDispatched
  /\ \A j \in Indices("decided") :
       (~IsKey(trace[j]) /\ pc = "REVIEW") =>
          /\ Logged("WARN", "Unknown tool decided by router. Falling back.")
          /\ ReturnedFallback

\* C8, amended: as stated, except that a "tool" value that cannot be hashed
\* (a JSON array or object) fails the table lookup itself: then no WARN entry
\* is logged, the ERROR entry of the handler is, and the handler's
\* ask_question(task) gives the result.
C8_UnknownToolFallsBack ==
  /\ OnlyKeysDispatched
  /\ \A j \in Indices("decided") :
       (~IsKey(trace[j]) /\ pc = "REVIEW") =>
          /\ ReturnedFallback
          /\ IF trace[j].n = 3
             THEN /\ ~Logged("WARN", "Unknown tool decided by router. Falling back.")
                  /\ Logged("ERROR", "Routing Error. Falling back to general question.")
                  /\ draft = Reply(runs, "ask_fb")
             ELSE Logged("WARN", "Unknown tool decided by router. Falling back.")

\* the router named a list as the tool and route_task has returned the
\* handler's answer
C8_Witness ==
  /\ pc = "REVIEW"
  /\ \E j \in Indices("decided") : trace[j].n = 3
  /\ draft = Reply(runs, "ask_fb")

\* ---------------------------------------------------------------- C9
\* C9: route_task never propagates an exception: a run ends by an exception
\* only if it has come to REVIEW, that is, after route_task has returned.
C9_RouteTaskNeverRaises ==
  pc = "RAISED" => Has("phase", "REVIEW")

\* ---------------------------------------------------------------- C10
\* C10 as stated: when route_task has returned, it has invoked exactly one
\* operation, the selected tool or the fallback ask_question.
C10_ExactlyOneOperation ==
  pc = "REVIEW" => Cardinality(Indices("op")) = 1

\* C10, amended: route_task invokes at most one operation selected from the
\* table, and when it has returned it has invoked one or two operations; a
\* second operation is always the fallback ask_question, invoked after an
\* exception of the first has reached the handler.
C10_FallbackOnlyAfterRaise ==
  /\ Cardinality(TableOps) <= 1
  /\ pc = "REVIEW" => Cardinality(Indices("op")) \in {1, 2}
  /\ \A i, j \in Indices("op") :
       i < j => /\ trace[j].n = 1 /\ trace[j].id = "ask_question"
                /\ \E r \in Indices("raised") : i < r /\ r < j

\* evaluate_trade raised after its first specialist had answered: the
\* specialist's turns and tokens stay, the draft is the fallback's answer
C10_Witness ==
  /\ pc = "REVIEW"
  /\ Has("op", "evaluate_trade")
  /\ draft = Reply(runs, "ask_fb")
  /\ memory["TradeAnalyst"] # <<>>
  /\ Has("tally", "trader")

\* ---------------------------------------------------------------- C11
\* C11: run never raises: no run ends by an exception that reaches the
\* caller of run.
C11_RunNeverRaises == pc # "RAISED"

\* ---------------------------------------------------------------- C12
CompositeOps ==
  {"evaluate_trade", "predict_game", "analyze_player_comprehensive",
   "analyze_team_comprehensive"}

SpecialistLabels == {"trader", "scout1", "scout2", "analyzer1", "analyzer2", "predictor"}

SynthCalls == {i \in 1..Len(trace) : trace[i].ev \in {"call", "failed_call"} /\ trace[i].id = "synth"}

\* C12: in a composite operation every specialist call is guarded on its
\* own: when the completion call of one of its specialists has failed, the
\* operation still goes on to synthesize_responses (whose completion call
\* follows the failed one in the run).
C12_EverySpecialistCallGuarded ==
  \A i \in Indices("failed_call") :
    (trace[i].id \in SpecialistLabels
       /\ \E k \in Indices("op") : k < i /\ trace[k].n = 0 /\ trace[k].id \in CompositeOps)
      => \E j \in SynthCalls : i < j

\* ---------------------------------------------------------------- C13
\* predict_game has run, the GamePredictor's call failed and the
\* StatsAnalyzer answered for both teams
PredictorAloneFailed ==
  /\ pc \in {"REVIEW", "EXCEPT"}
  /\ Has("op", "predict_game")
  /\ Has("failed_call", "predictor")
  /\ Has("call", "analyzer1") /\ Has("call", "analyzer2")

\* C13: when predict_matchup raises and analyze_team answers for both teams,
\* synthesize_responses is invoked exactly once, with the placeholder under
\* "prediction" and the two answers under "team1_analysis" and
\* "team2_analysis"; no exception of predict_matchup reaches route_task, and
\* when the synthesis call succeeds its reply is what predict_game returns.
C13_PredictionPlaceholder ==
  PredictorAloneFailed =>
     /\ Cardinality(SynthCalls) = 1
     /\ \A j \in SynthCalls : \A i \in Indices("failed_call") \cup Indices("call") :
          trace[i].id \in {"predictor", "analyzer1", "analyzer2"} => i < j
     /\ responses = {<<"prediction", Placeholder>>,
                     <<"team1_analysis", Reply(runs, "analyzer1")>>,
                     <<"team2_analysis", Reply(runs, "analyzer2")>>}
     /\ Has("call", "synth") =>
          /\ pc = "REVIEW" /\ ~Has("raised", "route_task")
          /\ draft = Reply(runs, "synth")

\* the synthesis has answered from the placeholder and the two analyses
C13_Witness ==
  /\ PredictorAloneFailed
  /\ pc = "REVIEW"
  /\ draft = Reply(runs, "synth")
  /\ <<"prediction", Placeholder>> \in responses

\* ---------------------------------------------------------------- C14
ComparisonKeys == {"points", "rebounds", "assists", "field_goal_percentage"}

\* C14: compare_players(a, b) never raises; it returns success=false when
\* the lookup of a or of b fails, and when both succeed (with or without
\* 'stats' in the records) it returns success=true with a comparison whose
\* keys are exactly the four statistics, each with a value for both names.
C14_CompareMirrorsLookups ==
  got.op = "compare_players" =>
    /\ ~got.raised
    /\ (~got.success1 \/ ~got.success2) => ~got.envelope.success
    /\ (got.success1 /\ got.success2) =>
         /\ got.envelope.success
         /\ "comparison" \in got.envelope.keys
         /\ DOMAIN got.envelope.comparison = ComparisonKeys
         /\ \A stat \in ComparisonKeys : \A n \in {got.player1, got.player2} :
              \E kv \in got.envelope.comparison[stat] : kv[1] = n

\* ---------------------------------------------------------------- C15
\* two strings are equal when letter case is ignored
EqualsIgnoringCase(a, b) ==
  /\ Len(a) = Len(b)
  /\ \A i \in 1..Len(a) : Lower(<<a[i]>>) = Lower(<<b[i]>>)

\* name is a roster entry for the lookup op
InRoster(op, name) ==
  IF op = "get_player_stats"
  THEN \E p \in Players : EqualsIgnoringCase(name, p.full_name)
  ELSE \E t \in Teams : EqualsIgnoringCase(name, t.full_name)
                        \/ EqualsIgnoringCase(name, t.nickname)

\* C15: get_player_stats and get_team_stats never raise and succeed exactly
\* when the name equals a roster entry ignoring case; a failure carries a
\* non-empty 'error' and no 'data', a success carries 'data' and no 'error'.
C15_LookupSucceedsIffInRoster ==
  got.op \in {"get_player_stats", "get_team_stats"} =>
    /\ ~got.raised
    /\ got.envelope.success <=> InRoster(got.op, got.name)
    /\ got.envelope.success =>
         got.envelope.keys = {"success", "data"} /\ got.envelope.data # <<>>
    /\ ~got.envelope.success =>
         /\ got.envelope.keys = {"success", "error"}
         /\ got.envelope.error # <<>>
         /\ got.envelope.data = <<>>

\* a player found under a name in another case, a team found under its
\* nickname
C15_Witness ==
  /\ got.op = "get_player_stats"
  /\ got.name = <<"a", "L">>
  /\ got.envelope.success
  /\ got.envelope.data[1].full_name = <<"A", "l">>

\* ---------------------------------------------------------------- C16
\* C16: set(k, v, ttl_hours=0) followed at once by get(k) returns None,
\* however little time has passed between the two, none included.
C16_ZeroTtlAbsentAtOnce ==
  (got.op = "get" /\ got.after_set = 0) => got.value = <<>>

\* ---------------------------------------------------------------- C17
\* the file a get found was written by a set, is undamaged and is within
\* its TTL at the time of the get
Fresh(h) ==
  /\ h # <<>>
  /\ h[1].damage = ""
  /\ now <= FromIsoformat(h[1].timestamp) + h[1].ttl_hours

\* the file a get found is undamaged and past its TTL
Stale(h) ==
  /\ h # <<>>
  /\ h[1].damage = ""
  /\ now > FromIsoformat(h[1].timestamp) + h[1].ttl_hours

\* C17: the cache never serves a stale entry.  A set leaves the entry of its
\* key with the value passed, clear and clear_key leave none; get(k) returns
\* the value of the latest set(k) unchanged when its entry has not been
\* cleared and the time is within created_at + ttl, and None otherwise; a
\* get that finds the entry past its TTL removes the file.
C17_NeverServesStale ==
  /\ got.op = "set" =>
       /\ files[got.key] # <<>>
       /\ files[got.key][1].orig \in CacheValues(got.key)
       /\ files[got.key][1].damage = ""
       /\ FromIsoformat(files[got.key][1].timestamp) = now
       /\ files[got.key][1].ttl_hours = got.ttl
  /\ got.op = "clear" => \A k \in CacheKeys : files[k] = <<>>
  /\ got.op = "clear_key" => files[got.key] = <<>>
  /\ got.op = "get" =>
       /\ got.value = IF Fresh(got.had) THEN <<got.had[1].orig>> ELSE <<>>
       /\ Fresh(got.had) => files[got.key] = got.had
       /\ Stale(got.had) => files[got.key] = <<>>

\* a get has found an entry past its TTL, returned None and removed the file
C17_Witness ==
  /\ got.op = "get"
  /\ Stale(got.had)
  /\ got.had[1].ttl_hours = 1
  /\ got.value = <<>>
  /\ files[got.key] = <<>>

\* ---------------------------------------------------------------- C18
\* C18: get(k) on a corrupt entry (invalid JSON, or no 'timestamp',
\* 'ttl_hours' or 'value') returns None and reports the problem, without
\* raising; a set(k, v) that follows, then get(k) within the TTL, returns v.
C18_CorruptIsReportedMiss ==
  got.op = "get" =>
    /\ (got.had # <<>> /\ got.had[1].damage # "") => (got.value = <<>> /\ got.printed)
    /\ (got.repaired /\ Fresh(got.had)) => got.value = <<got.had[1].orig>>

\* ---------------------------------------------------------------- C19
\* a lookup of a roster entry went to the upstream endpoint and every
\* attempt of the fetch raised
AllAttemptsFailed ==
  /\ got.op \in {"get_player_stats", "get_team_stats"}
  /\ got.fetched
  /\ got.all_failed

\* C19 as stated: when the fetch fails on every attempt, get_player_stats /
\* get_team_stats return success=false and no exception reaches the caller.
C19_ExhaustedFetchFails ==
  AllAttemptsFailed => (~got.envelope.success /\ ~got.raised)

\* C19: when the fetch fails on every attempt, the wrapper gives up after
\* RetryAttempts attempts and get_player_stats / get_team_stats fall back
\* to the lite record: success=true with 'data' whose 'stats' is None; no
\* exception reaches the caller.
C19_ExhaustedFetchFallsBackToLite ==
  AllAttemptsFailed =>
    /\ ~got.raised
    /\ got.tries = RetryAttempts
    /\ got.envelope.success
    /\ got.envelope.data # <<>>
    /\ got.envelope.data[1].stats = <<>>

\* a team lookup whose fetch failed three times has returned the lite record
C19_Witness ==
  /\ AllAttemptsFailed
  /\ got.op = "get_team_stats"
  /\ got.tries = RetryAttempts
  /\ got.envelope.success
  /\ got.envelope.data[1].stats = <<>>

\* ---------------------------------------------------------------- C20
\* an entry point has been called and a gateway call of it returned
\* success=false
GatewayFailed ==
  /\ got.op = "entry"
  /\ \E i \in 1..Len(got.envelopes) : ~got.envelopes[i].success

\* the entry point returned without a completion call and without touching
\* the memory and last_usage of any specialist
FailedFast ==
  /\ ~got.exc
  /\ got.calls = 0
  /\ got.after = got.before

\* C20 as stated: for each of the seven entry points, when its gateway call
\* returns success=false, it returns exactly the error string of that
\* envelope, makes no completion call and leaves memory and last_usage
\* unchanged.
C20_EntryReturnsGatewayError ==
  GatewayFailed =>
    /\ FailedFast
    /\ \A i \in 1..Len(got.envelopes) :
         ~got.envelopes[i].success => got.val = got.envelopes[i].error

\* C20: when its gateway call returns success=false, analyze_player,
\* analyze_team, scout_player and compare_for_trade return exactly the error
\* string of the envelope, and predict_matchup returns the fixed string
\* "One or both teams not found" whichever lookup failed; none of the five
\* makes a completion call or changes memory or last_usage.
\* check_live_games and scout_prospect obtain no envelope: their gateway
\* call raises.
C20_EntryFailsFast ==
  /\ GatewayFailed =>
       /\ FailedFast
       /\ got.ep \in {"analyze_player", "analyze_team", "scout_player", "compare_for_trade",
                      "predict_matchup"}
       /\ got.val = IF got.ep = "predict_matchup" THEN Text("One or both teams not found")
                    ELSE got.envelopes[1].error
  /\ (got.op = "entry" /\ got.ep \in {"check_live_games", "scout_prospect"}) =>
       (got.envelopes = <<>> /\ got.exc /\ got.calls = 0 /\ got.after = got.before)

\* analyze_player has returned the error of a failed lookup, the memories
\* of the specialists being non-empty
C20_Witness ==
  /\ GatewayFailed
  /\ got.ep = "analyze_player"
  /\ got.val = got.envelopes[1].error
  /\ got.calls = 0
  /\ got.before.memory["StatsAnalyzer"] # <<>>
  /\ got.after = got.before

\* ---------------------------------------------------------------- C21
\* C21: when run(task, stream=True) returns after the Reviewer, the
\* Reviewer's streaming call was made, no usage of the Reviewer was added to
\* the tally (the Reviewer has no usage object), and the run's log holds the
\* entry saying that the Reviewer's usage is not tracked.
C21_StreamingUsageLoggedAsUntracked ==
  (ReturnedOnTopic /\ stream) =>
     /\ Has("stream", "reviewer")
     /\ \A i \in Indices("tally") : trace[i].id # "reviewer"
     /\ last_usage["Reviewer"] = <<>>
     /\ \E i \in 1..Len(log) :
          /\ log[i].level = "WARN"
          /\ log[i].message = "Usage for streaming Reviewer agent is not tracked."
          /\ log[i].run = runs

\* a streaming run has returned with a non-zero tally of its specialists
C21_Witness ==
  /\ ReturnedOnTopic /\ stream
  /\ Has("stream", "reviewer")
  /\ run_usage.total_tokens > 0
  /\ Logged("WARN", "Usage for streaming Reviewer agent is not tracked.")

\* ---------------------------------------------------------------- C22
\* the cache key of the roster entry that name equals ignoring case: it is
\* made of the entry's numeric id
KeyById(op, name) ==
  IF op = "get_player_stats"
  THEN PlayerKey(CHOOSE p \in Players : EqualsIgnoringCase(name, p.full_name))
  ELSE TeamKey(CHOOSE t \in Teams : EqualsIgnoringCase(name, t.full_name)
                                    \/ EqualsIgnoringCase(name, t.nickname))

\* C22: a lookup of a roster entry reads the cache under the key made of
\* the entry's id, whatever the case of the name typed.  When the file
\* under that key is within its TTL, the lookup returns the cached value and
\* makes no upstream fetch (no Wikipedia summary, no stats attempt) and the
\* file stays as it was; otherwise the freshly built result is stored under
\* that key with the default TTL.
C22_CacheReadFirstKeyedById ==
  (got.op \in {"get_player_stats", "get_team_stats"} /\ InRoster(got.op, got.name)) =>
     LET k == KeyById(got.op, got.name)
     IN  /\ got.key = k
         /\ IF Fresh(got.had)
            THEN /\ got.hit /\ ~got.wiki /\ got.tries = 0
                 /\ got.envelope.data = <<got.had[1].orig>>
                 /\ files[k] = got.had
            ELSE /\ ~got.hit /\ got.wiki
                 /\ files[k] # <<>>
                 /\ <<files[k][1].orig>> = got.envelope.data
                 /\ JsonLoad(files[k][1].value) = got.envelope.data[1]
                 /\ FromIsoformat(files[k][1].timestamp) = now
                 /\ files[k][1].ttl_hours = DefaultTtl

\* in Full mode, a lookup under a name in another case is served from the
\* entry an earlier lookup stored, an hour later, without any fetch
C22_Witness ==
  /\ got.op = "get_player_stats"
  /\ got.name = <<"a", "L">>
  /\ got.fetched = FALSE
  /\ got.hit /\ ~got.wiki /\ got.tries = 0
  /\ now = 1
  /\ FromIsoformat(got.had[1].timestamp) = 0
  /\ got.envelope.data[1].stats # <<>>

\* ---------------------------------------------------------------- C23
\* the operations of the table that rest on get_games_today and web_search
LiveAndSearchOps == {"web_search", "check_live_games", "scout_prospect"}

\* C23: when the router selects web_search, check_live_games or
\* scout_prospect with well-formed params, the operation invoked from the
\* table completes: no exception of it reaches route_task's handler and the
\* generic Q&A fallback is not invoked after it.
C23_LiveAndSearchOpsComplete ==
  \A i \in TableOps :
    trace[i].id \in LiveAndSearchOps =>
      \A j \in Indices("raised") \cup Indices("op") : j <= i

\* ---------------------------------------------------------------- C24
\* the invocations made so far that raised
RaisedAttempts(seen) == {i \in 1..Len(seen) : seen[i] = "raise"}

\* what holds of a call of the wrapper at every moment
RetryBounded ==
  got.op = "retry" =>
    /\ Len(got.seen) <= got.attempts
    /\ \A i \in 1..Len(got.seen) - 1 : got.seen[i] = "raise"
    /\ Len(got.waits) = IF Cardinality(RaisedAttempts(got.seen)) = got.attempts
                        THEN got.attempts - 1
                        ELSE Cardinality(RaisedAttempts(got.seen))
    /\ \A i \in 1..Len(got.waits) : got.waits[i] = got.delay
    /\ ~got.raised
    /\ got.state = "returned" <=>
         /\ got.seen # <<>>
         /\ got.seen[Len(got.seen)] # "raise" \/ Len(got.seen) = got.attempts
    /\ got.state = "returned" =>
         got.value = IF got.seen[Len(got.seen)] = "stats" THEN <<StatsRecord>> ELSE <<>>

\* C24: a function wrapped with retry(attempts=n, delay=d), n >= 1, is
\* invoked at most n times per call; the first invocation that does not
\* raise ends the call with its result (None included); after n raising
\* invocations the call returns None and does not raise; the wrapper waits d
\* after each failed attempt but the last; and every call returns.
C24_RetryBoundedAndTerminates ==
  /\ []RetryBounded
  /\ Retrying ~> (got.op = "retry" /\ got.state = "returned")

\* a call with five attempts has given up: five invocations, four waits
C24_Witness ==
  /\ got.op = "retry"
  /\ got.state = "returned"
  /\ got.attempts = MaxAttempts
  /\ Len(got.seen) = MaxAttempts
  /\ got.seen[MaxAttempts] = "raise"
  /\ Len(got.waits) = MaxAttempts - 1
  /\ got.delay = MaxDelay
  /\ got.value = <<>>

\* ---------------------------------------------------------------- C25
\* the role and content of the entries of a memory
Turns(mem) == [i \in 1..Len(mem) |-> [role |-> mem[i].role, content |-> mem[i].content]]

\* C25: a successful non-streaming think(query) grows the agent's memory by
\* exactly two entries, the user query and then the assistant reply it
\* returns; the request is the role preamble followed by the agent's whole
\* memory with the new query at its end; the memory of every other agent and
\* the conversation history are as before.
C25_ThinkGrowsOwnMemoryByTwo ==
  (got.op = "think" /\ ~got.exc) =>
    LET old == got.before.memory[got.agent]
        new == got.after.memory[got.agent]
    IN  /\ Len(new) = Len(old) + 2
        /\ SubSeq(new, 1, Len(old)) = old
        /\ Turns(SubSeq(new, Len(old) + 1, Len(new)))
             = <<[role |-> "user", content |-> got.query],
                 [role |-> "assistant", content |-> got.val]>>
        /\ got.request[1] = [role |-> "system", content |-> SystemPrompt(got.agent)]
        /\ SubSeq(got.request, 2, Len(got.request))
             = Turns(old) \o <<[role |-> "user", content |-> got.query]>>
        /\ \A a \in Agents \ {got.agent} : got.after.memory[a] = got.before.memory[a]
        /\ got.after.history = got.before.history

\* a specialist with an earlier exchange has answered a second query
C25_Witness ==
  /\ got.op = "think" /\ ~got.exc
  /\ got.agent = "PlayerScout"
  /\ Len(got.before.memory["PlayerScout"]) = 2
  /\ Len(got.after.memory["PlayerScout"]) = 4
  /\ Len(got.request) = 4
  /\ got.before.history # <<>>

\* ---------------------------------------------------------------- C26
\* user turn, assistant turn, and so on, ending with an assistant turn
Alternates(history) ==
  /\ Len(history) % 2 = 0
  /\ \A i \in 1..Len(history) :
       history[i].role = IF i % 2 = 1 THEN "user" ELSE "assistant"

\* C26: after any sequence of clear_history calls and non-streaming run
\* calls, runs that raise included, the conversation history alternates
\* user turn, assistant turn: between runs no user turn is unanswered.
C26_HistoryAlternates ==
  (Between /\ ~streamed) => Alternates(conversation_history)

\* ---------------------------------------------------------------- C27
\* C27: a streaming run does not leak into a later run: once run k+1 has
\* ended, no agent's memory holds an entry made for run k, whenever the
\* lazy sequence of run k is drained.
C27_NoLeakFromEarlierStream ==
  pc \in {"DONE", "RAISED"} =>
    \A a \in Agents : \A i \in 1..Len(memory[a]) : memory[a][i].run = runs

\* ---------------------------------------------------------------- C28
\* C28: the shape of run's first return value follows from the stream flag
\* alone: a plain string when stream=False, on-topic or off-topic, and a
\* lazy sequence only when stream=True.
C28_ShapeFollowsStreamFlag ==
  pc = "DONE" =>
    /\ result.run = runs
    /\ result.shape = IF stream THEN "generator" ELSE "str"

\* ---------------------------------------------------------------- C29
\* C29: a transient upstream failure is not cached: in Full mode, when the
\* stats fetch for a roster entry has failed on every attempt, the lookup
\* leaves no file under the entry's key, so that the next lookup fetches
\* again.
C29_FailedFetchNotCached ==
  AllAttemptsFailed => files[got.key] = <<>>

====
